---- MODULE Spec2Model ----
(***************************************************************************)
(* A model of the event-driven shot simulation of psim/engine.py:          *)
(* ShotHistory (the event-indexed trajectory log: timestamp, continuize,   *)
(* vectorize_history) and ShotSimulation (the orchestrator:                *)
(* get_next_event, evolve, resolve, simulate).                             *)
(*                                                                         *)
(* The physics kernel (psim.physics) and the Ball class (psim.objects) are *)
(* not part of the sources at hand.  They are modelled from the            *)
(* specification: a ball's kinematic block rvw is abstracted to three      *)
(* numbers, the simulated time it has moved (r), the number of collision   *)
(* resolutions applied to it (c) and the time left in its current motion   *)
(* regime (left).  Collision times, which need root finding, are drawn     *)
(* from a small set at every query.                                        *)
(***************************************************************************)
EXTENDS Integers, Sequences, FiniteSets, TLC

(***************************************************************************)
(* Bounds of the model.                                                    *)
(***************************************************************************)
MaxBalls == 3     \* balls handed to set_balls: 0 .. MaxBalls
MaxRails == 1     \* rails of the table: 0 .. MaxRails
MaxTau == 2       \* finite event times are 0 .. MaxTau
MaxColl == 2      \* collisions predicted with a finite time in one query
MaxEvents == 2    \* iterations of simulate's loop
MaxTime == 1      \* time bounds handed to simulate: 0 .. MaxTime
MaxDt == 2        \* time steps handed to continuize: 1 .. MaxDt
ReplayEvents == 8 \* iterations of simulate's loop in a shot that is replayed
GenRails == 2     \* rails of the table when a generator is applied alone

(***************************************************************************)
(* Values.                                                                 *)
(***************************************************************************)
Inf == 1000000    \* np.inf
None == -1        \* Python's None where a number or an id is expected
NoType == "None"  \* Python's None as an event type

stationary == "stationary"
sliding == "sliding"
rolling == "rolling"
spinning == "spinning"
pocketed == "pocketed"
States == {stationary, sliding, rolling, spinning, pocketed}

Taus == 0..MaxTau
Add(a, b) == IF a = Inf \/ b = Inf THEN Inf ELSE a + b

VARIABLES
    balls,       \* self.balls: the ordered dict of balls, in iteration order
    table,       \* self.table: the rails, in iteration order
    history,     \* self.history
    n,           \* self.n
    time,        \* self.time
    vectorized,  \* self.vectorized
    event,       \* simulate's local variable event
    time_arg,    \* simulate's parameter time
    cand,        \* get_next_event's locals: what the three generators returned
    pc,          \* position of the caller / of simulate / of continuize
    arrays,      \* the series of self.history that are numpy arrays, by key
    alias,       \* <<ball id, k>>: the k-th logged rvw of the ball is the
                 \* very object the live ball holds as ball.rvw
    old_history, \* continuize's local variable old_history
    dt_arg,      \* continuize's parameter dt
    dt_prime,    \* continuize's local variable dt_prime
    event_time,  \* continuize's local variable event_time
    pos,         \* continuize's for loop: position in zip(index, event)
    oracle,      \* the root-finding answers when a generator is applied alone
    call,        \* the caller's last call on a component taken alone:
                 \* [op, arg, out], out being "ok" or the exception raised
    cushion,     \* the Cushion under construction or constructed
    pt_table,    \* the cushions of the Table constructed (objects/table.py)
    glob,        \* the Global namespace (ani/globals.py)
    showbase,    \* hasattr(ShowBaseGlobal, "base")
    mode         \* the ShotMode and what it acts on (ani/modes/shot.py)

\* What simulate leaves alone: the locals of continuize, the lone oracle
cvars == <<old_history, dt_arg, dt_prime, event_time, pos, oracle>>

\* The engine, and the components beside it
engine == <<balls, table, history, n, time, vectorized, event, time_arg, cand, pc,
            arrays, alias, old_history, dt_arg, dt_prime, event_time, pos, oracle>>
aux == <<call, cushion, pt_table, glob, showbase, mode>>

vars == <<balls, table, history, n, time, vectorized, event, time_arg, cand, pc,
          arrays, alias, old_history, dt_arg, dt_prime, event_time, pos, oracle,
          call, cushion, pt_table, glob, showbase, mode>>

(***************************************************************************)
(* Event (engine.py, class Event).                                         *)
(***************************************************************************)
Event(event_type, agents, tau) ==
    [event_type |-> event_type, agents |-> agents, tau |-> tau]

(***************************************************************************)
(* Physics kernel, modelled from the specification (sections 4.1, 4.2).    *)
(***************************************************************************)
RegimeAfter(s) == IF s = sliding THEN rolling ELSE stationary

\* get_roll_time / get_slide_time / get_spin_time: closed form, finite, >= 0
get_roll_time(rvw) == rvw.left
get_slide_time(rvw) == rvw.left
get_spin_time(rvw) == rvw.left

\* evolve_ball_motion(state, rvw, ..., t) -> (rvw, s): the identity for a
\* ball at rest (and for the inert record of a pocketed ball)
evolve_ball_motion(state, rvw, t) ==
    IF state \in {stationary, pocketed}
    THEN [rvw |-> rvw, s |-> state]
    ELSE IF t >= rvw.left
         THEN LET s2 == RegimeAfter(state)
              IN  [rvw |-> [r |-> Add(rvw.r, t), c |-> rvw.c,
                            left |-> IF s2 = stationary THEN 0 ELSE MaxTau],
                   s |-> s2]
         ELSE [rvw |-> [r |-> rvw.r + t, c |-> rvw.c, left |-> rvw.left - t],
               s |-> state]

\* resolve_ball_ball_collision(rvw1, rvw2) -> (rvw1, rvw2)
resolve_ball_ball_collision(rvw1, rvw2) ==
    << [rvw1 EXCEPT !.c = @ + 1, !.left = MaxTau],
       [rvw2 EXCEPT !.c = @ + 1, !.left = MaxTau] >>

\* resolve_ball_rail_collision(rvw, normal, R, m, h) -> rvw
resolve_ball_rail_collision(rvw) ==
    [rvw EXCEPT !.c = @ + 1, !.left = MaxTau]

\* The queries of one get_next_event call to the root-finding layer: ball
\* pairs (by position in self.balls) and ball-rail pairs.
CollisionQueries(nb, nr) ==
    {<<"bb", q[1], q[2]>> : q \in {x \in (1..nb) \X (1..nb) : x[1] < x[2]}} \cup
    {<<"br", i, k>> : i \in 1..nb, k \in 1..nr}

RECURSIVE SubsetsUpTo(_, _)
SubsetsUpTo(D, k) ==
    IF k = 0 THEN {{}}
    ELSE LET P == SubsetsUpTo(D, k - 1)
         IN  P \cup {p \cup {d} : p \in P, d \in D}

\* The answers of the root-finding layer to one round of queries: +inf
\* (no valid root) except for at most MaxColl queries.
Oracles(nb, nr) ==
    LET D == CollisionQueries(nb, nr)
        Finite == UNION {[S -> Taus] : S \in SubsetsUpTo(D, MaxColl)}
    IN  {[d \in D |-> IF d \in DOMAIN f THEN f[d] ELSE Inf] : f \in Finite}

get_ball_ball_collision_time(o, i, j) == o[<<"bb", i, j>>]
get_ball_rail_collision_time(o, i, k) == o[<<"br", i, k>>]


(***************************************************************************)
(* ShotHistory (engine.py, lines 37-208).                                  *)
(***************************************************************************)
BallIds(bs) == {bs[i].id : i \in DOMAIN bs}

NaN == "nan"
NaN_rvw == [r |-> None, c |-> None, left |-> None]
Repeat(x, k) == [i \in 1..(IF k > 0 THEN k ELSE 0) |-> x]

\* Lines 108-109 of init_ball_history: a ball_id that is not in self.balls
init_ball_history_never_raises(bs, ball_id) == FALSE

init_ball_history_raises(bs, ball_id) == ball_id \notin BallIds(bs)

\* init_ball_history for a ball_id of self.balls: [np.nan] * self.n
init_ball_history(h, n_, ball_id) ==
    [h EXCEPT !.balls =
        [id \in DOMAIN h.balls \cup {ball_id} |->
            IF id = ball_id
            THEN [s |-> Repeat(NaN, n_), rvw |-> Repeat(NaN_rvw, n_)]
            ELSE h.balls[id]]]

RECURSIVE TouchLoop(_, _, _, _)
TouchLoop(h, n_, bs, i) ==
    IF i > Len(bs) THEN h
    ELSE IF bs[i].id \notin DOMAIN h.balls
         THEN TouchLoop(init_ball_history(h, n_, bs[i].id), n_, bs, i + 1)
         ELSE TouchLoop(h, n_, bs, i + 1)

touch_history(h, n_, bs) == TouchLoop(h, n_, bs, 1)

EmptyHistory == [balls |-> <<>>, index |-> <<>>, time |-> <<>>, event |-> <<>>]

\* The ball of self.balls stored under a key
BallOf(bs, id) == bs[CHOOSE i \in DOMAIN bs : bs[i].id = id]

\* Variant: the index is appended before self.n is incremented
timestamp_index_first(h, n_, time_, bs, dt, ev) ==
    LET n2 == n_ + 1
        t2 == Add(time_, dt)
    IN  [n |-> n2,
         time |-> t2,
         history |->
            [balls |-> [id \in DOMAIN h.balls |->
                          IF id \in BallIds(bs)
                          THEN [s |-> Append(h.balls[id].s, BallOf(bs, id).s),
                                rvw |-> Append(h.balls[id].rvw, BallOf(bs, id).rvw)]
                          ELSE h.balls[id]],
             index |-> Append(h.index, n_),
             time |-> Append(h.time, t2),
             event |-> Append(h.event, ev)]]

\* Variant: the time logged is the step, self.time is not accumulated
timestamp_time_is_step(h, n_, time_, bs, dt, ev) ==
    LET n2 == n_ + 1
        t2 == dt
    IN  [n |-> n2,
         time |-> t2,
         history |->
            [balls |-> [id \in DOMAIN h.balls |->
                          IF id \in BallIds(bs)
                          THEN [s |-> Append(h.balls[id].s, BallOf(bs, id).s),
                                rvw |-> Append(h.balls[id].rvw, BallOf(bs, id).rvw)]
                          ELSE h.balls[id]],
             index |-> Append(h.index, n2),
             time |-> Append(h.time, t2),
             event |-> Append(h.event, ev)]]

\* timestamp(dt, event): the new n, time and history
timestamp(h, n_, time_, bs, dt, ev) ==
    LET n2 == n_ + 1
        t2 == Add(time_, dt)
    IN  [n |-> n2,
         time |-> t2,
         history |->
            [balls |-> [id \in DOMAIN h.balls |->
                          IF id \in BallIds(bs)
                          THEN [s |-> Append(h.balls[id].s, BallOf(bs, id).s),
                                rvw |-> Append(h.balls[id].rvw, BallOf(bs, id).rvw)]
                          ELSE h.balls[id]],
             index |-> Append(h.index, n2),
             time |-> Append(h.time, t2),
             event |-> Append(h.event, ev)]]

\* Line 135 of timestamp raises KeyError at the first ball of self.balls
\* (in the order of the dict) that has no series in the history
timestamp_raises(h, bs) == \E i \in DOMAIN bs : bs[i].id \notin DOMAIN h.balls

FirstUnregistered(h, bs) ==
    CHOOSE i \in DOMAIN bs :
        /\ bs[i].id \notin DOMAIN h.balls
        /\ \A j \in 1..(i - 1) : bs[j].id \in DOMAIN h.balls

\* What timestamp has done when it raises: lines 123-131 have run, and the
\* loop of lines 134-136 has logged the balls before the unregistered one
timestamp_until_KeyError(h, n_, time_, bs, dt, ev) ==
    LET first == FirstUnregistered(h, bs)
    IN  timestamp(h, n_, time_, SubSeq(bs, 1, first - 1), dt, ev)

(***************************************************************************)
(* ShotSimulation: the three event generators (engine.py, lines 471-560).  *)
(***************************************************************************)
\* "if tau < tau_min" of the generators' loops (lines 491, 526 and 556)
Earlier(tau, tau_min) == tau < tau_min

\* get_min_motion_event_time.  The locals tau and event_type are unbound
\* (None here) until a rolling, sliding or spinning ball has been examined;
\* reading tau unbound raises UnboundLocalError.
RECURSIVE MotionLoop(_, _, _)
MotionLoop(bs, i, a) ==
    IF a.raised \/ i > Len(bs) THEN a
    ELSE LET ball == bs[i]
         IN  IF ball.s = stationary THEN MotionLoop(bs, i + 1, a)
             ELSE LET b == IF ball.s = rolling
                           THEN [a EXCEPT !.tau = get_roll_time(ball.rvw),
                                          !.event_type = "end-roll"]
                           ELSE IF ball.s = sliding
                           THEN [a EXCEPT !.tau = get_slide_time(ball.rvw),
                                          !.event_type = "end-slide"]
                           ELSE IF ball.s = spinning
                           THEN [a EXCEPT !.tau = get_spin_time(ball.rvw),
                                          !.event_type = "end-spin"]
                           ELSE a
                  IN  IF b.tau = None THEN [b EXCEPT !.raised = TRUE]
                      ELSE IF Earlier(b.tau, b.tau_min)
                      THEN MotionLoop(bs, i + 1,
                               [b EXCEPT !.tau_min = b.tau,
                                         !.ball_id = ball.id,
                                         !.event_type_min = b.event_type])
                      ELSE MotionLoop(bs, i + 1, b)

\* Variant: a sliding ball is passed over like a ball at rest
get_min_motion_event_time_no_slide(bs) ==
    LET bs2 == [i \in DOMAIN bs |->
                  IF bs[i].s = sliding THEN [bs[i] EXCEPT !.s = stationary]
                  ELSE bs[i]]
        a == MotionLoop(bs2, 1,
                 [tau_min |-> Inf, ball_id |-> None, event_type_min |-> NoType,
                  tau |-> None, event_type |-> NoType, raised |-> FALSE])
    IN  [raised |-> a.raised, tau |-> a.tau_min, ids |-> <<a.ball_id>>,
         e |-> a.event_type_min]

get_min_motion_event_time(bs) ==
    LET a == MotionLoop(bs, 1,
                 [tau_min |-> Inf, ball_id |-> None, event_type_min |-> NoType,
                  tau |-> None, event_type |-> NoType, raised |-> FALSE])
    IN  [raised |-> a.raised, tau |-> a.tau_min, ids |-> <<a.ball_id>>,
         e |-> a.event_type_min]

\* Variant: no pair is skipped
SkipNoPair(ball1, ball2) == FALSE

\* line 510: a pair of balls at rest is not examined
SkipIfEitherAtRest(ball1, ball2) ==
    ball1.s = stationary \/ ball2.s = stationary
SkipPair(ball1, ball2) == ball1.s = stationary /\ ball2.s = stationary

\* get_min_ball_ball_event_time: the two enumerate loops
RECURSIVE BallBallLoop(_, _, _, _, _)
BallBallLoop(bs, o, i, j, a) ==
    IF i > Len(bs) THEN a
    ELSE IF j > Len(bs) THEN BallBallLoop(bs, o, i + 1, 1, a)
    ELSE IF i >= j THEN BallBallLoop(bs, o, i, j + 1, a)
    ELSE IF SkipPair(bs[i], bs[j])
         THEN BallBallLoop(bs, o, i, j + 1, a)
    ELSE LET tau == get_ball_ball_collision_time(o, i, j)
         IN  IF Earlier(tau, a.tau)
             THEN BallBallLoop(bs, o, i, j + 1,
                      [tau |-> tau, ids |-> <<bs[i].id, bs[j].id>>])
             ELSE BallBallLoop(bs, o, i, j + 1, a)

get_min_ball_ball_event_time(bs, o) ==
    BallBallLoop(bs, o, 1, 1, [tau |-> Inf, ids |-> <<>>])

\* get_min_ball_rail_event_time
RECURSIVE BallRailLoop(_, _, _, _, _, _)
BallRailLoop(bs, rails, o, i, k, a) ==
    IF i > Len(bs) THEN a
    ELSE IF bs[i].s = stationary THEN BallRailLoop(bs, rails, o, i + 1, 1, a)
    ELSE IF k > Len(rails) THEN BallRailLoop(bs, rails, o, i + 1, 1, a)
    ELSE LET tau == get_ball_rail_collision_time(o, i, k)
         IN  IF Earlier(tau, a.tau)
             THEN BallRailLoop(bs, rails, o, i, k + 1,
                      [tau |-> tau, ids |-> <<bs[i].id, rails[k]>>])
             ELSE BallRailLoop(bs, rails, o, i, k + 1, a)

get_min_ball_rail_event_time(bs, rails, o) ==
    BallRailLoop(bs, rails, o, 1, 1, [tau |-> Inf, ids |-> <<None, None>>])

(***************************************************************************)
(* get_next_event (engine.py, lines 445-468).  The three candidates are    *)
(* examined in the order motion transition, ball-ball, ball-rail.          *)
(***************************************************************************)
\* Variants of the comparison: a tie replaces the choice; a later one does
ReplacesOnTie(tau, tau_min) == tau <= tau_min
ReplacesWhenLater(tau, tau_min) == tau > tau_min

\* "if tau < tau_min" of lines 451, 457 and 463
Replaces(tau, tau_min) == tau < tau_min

NextEventOf(m, bb, br) ==
    LET e0 == Event(NoType, <<>>, Inf)
        e1 == IF Replaces(m.tau, e0.tau) THEN Event(m.e, m.ids, m.tau) ELSE e0
        e2 == IF Replaces(bb.tau, e1.tau)
              THEN Event("ball-ball", bb.ids, bb.tau) ELSE e1
        e3 == IF Replaces(br.tau, e2.tau)
              THEN Event("ball-rail", br.ids, br.tau) ELSE e2
    IN  e3

\* The result of a call: raised, or the event returned together with the
\* three candidates it was chosen from
get_next_event(bs, rails, o) ==
    LET m == get_min_motion_event_time(bs)
        bb == get_min_ball_ball_event_time(bs, o)
        br == get_min_ball_rail_event_time(bs, rails, o)
    IN  IF m.raised
        THEN [raised |-> TRUE, event |-> Event(NoType, <<>>, Inf)]
        ELSE [raised |-> FALSE, event |-> NextEventOf(m, bb, br)]

(***************************************************************************)
(* ShotSimulation: evolve and resolve (engine.py, lines 386-442).          *)
(***************************************************************************)
\* Ball.set(rvw, s)
ball_set(ball, rvw, s) == [ball EXCEPT !.rvw = rvw, !.s = s]

IndexOf(bs, id) == CHOOSE i \in DOMAIN bs : bs[i].id = id

\* Variant: ball.set after the loop, only the last ball is advanced
EvolveLastBall(bs, dt) ==
    [i \in DOMAIN bs |->
        IF i = Len(bs)
        THEN LET e == evolve_ball_motion(bs[i].s, bs[i].rvw, dt)
             IN  ball_set(bs[i], e.rvw, e.s)
        ELSE bs[i]]

\* The loop of evolve: every ball of self.balls is advanced by dt
EvolveBalls(bs, dt) ==
    [i \in DOMAIN bs |->
        LET e == evolve_ball_motion(bs[i].s, bs[i].rvw, dt)
        IN  ball_set(bs[i], e.rvw, e.s)]

\* Variant: a ball-ball collision sets every ball sliding
resolve_all_sliding(bs, ev) ==
    IF ev.event_type = "ball-ball"
    THEN LET i1 == IndexOf(bs, ev.agents[1])
             i2 == IndexOf(bs, ev.agents[2])
             out == resolve_ball_ball_collision(bs[i1].rvw, bs[i2].rvw)
         IN  [i \in DOMAIN bs |->
                IF i = i1 THEN ball_set(bs[i], out[1], sliding)
                ELSE IF i = i2 THEN ball_set(bs[i], out[2], sliding)
                ELSE ball_set(bs[i], bs[i].rvw, sliding)]
    ELSE IF ev.event_type = "ball-rail"
    THEN LET i1 == IndexOf(bs, ev.agents[1])
         IN  [bs EXCEPT ![i1] = ball_set(@, resolve_ball_rail_collision(@.rvw),
                                         sliding)]
    ELSE bs

\* Variant: a collision leaves the motion state of the balls as it was
resolve_keep_state(bs, ev) ==
    IF ev.event_type = "ball-ball"
    THEN LET i1 == IndexOf(bs, ev.agents[1])
             i2 == IndexOf(bs, ev.agents[2])
             out == resolve_ball_ball_collision(bs[i1].rvw, bs[i2].rvw)
         IN  [bs EXCEPT ![i1] = ball_set(@, out[1], @.s),
                        ![i2] = ball_set(@, out[2], @.s)]
    ELSE IF ev.event_type = "ball-rail"
    THEN LET i1 == IndexOf(bs, ev.agents[1])
         IN  [bs EXCEPT ![i1] = ball_set(@, resolve_ball_rail_collision(@.rvw),
                                         @.s)]
    ELSE bs

resolve(bs, ev) ==
    IF ev.event_type = NoType THEN bs
    ELSE IF ev.event_type = "ball-ball"
    THEN LET i1 == IndexOf(bs, ev.agents[1])
             i2 == IndexOf(bs, ev.agents[2])
             out == resolve_ball_ball_collision(bs[i1].rvw, bs[i2].rvw)
         IN  [bs EXCEPT ![i1] = ball_set(@, out[1], sliding),
                        ![i2] = ball_set(@, out[2], sliding)]
    ELSE IF ev.event_type = "ball-rail"
    THEN LET i1 == IndexOf(bs, ev.agents[1])
         IN  [bs EXCEPT ![i1] = ball_set(@, resolve_ball_rail_collision(@.rvw),
                                         sliding)]
    ELSE bs

(***************************************************************************)
(* ShotHistory, continued: reset_history, set_table_state_via_history,     *)
(* vectorize_history (engine.py, lines 48-61 and 178-208), and which       *)
(* logged entries are shared with the live balls.                          *)
(***************************************************************************)
\* event=None, the default of timestamp and of evolve
NoEvent == Event("no event", <<>>, None)

\* isinstance(event, Event), line 156
IsEvent(ev) == ev # NoEvent

\* reset_history: the fresh log, with a series for every ball of self.balls
reset_history(bs) ==
    [vectorized |-> FALSE,
     history |-> touch_history(EmptyHistory, -1, bs),
     n |-> -1,
     time |-> 0]

\* Variant: the balls are set to the first stored state whatever the index
set_table_state_to_first(bs, h, index) ==
    [i \in DOMAIN bs |->
        ball_set(bs[i], h.balls[bs[i].id].rvw[1], h.balls[bs[i].id].s[1])]

\* set_table_state_via_history(index, history): every ball of self.balls is
\* set to the rvw and s stored at index (counted from 0)
set_table_state_via_history(bs, h, index) ==
    [i \in DOMAIN bs |->
        ball_set(bs[i], h.balls[bs[i].id].rvw[index + 1],
                        h.balls[bs[i].id].s[index + 1])]

\* The series of a history that vectorize_history converts, by key
SeriesKeys(h) ==
    {<<"index", 0>>, <<"time", 0>>} \cup
    {<<"s", id>> : id \in DOMAIN h.balls} \cup
    {<<"rvw", id>> : id \in DOMAIN h.balls}

\* np.array(list): a new array holding the elements of the list, in order
np_array(list) == [k \in 1..Len(list) |-> list[k]]

\* Variant: the time series is built from the index list
vectorize_history_time_from_index(h) ==
    [balls |-> [id \in DOMAIN h.balls |->
                  [s |-> np_array(h.balls[id].s),
                   rvw |-> np_array(h.balls[id].rvw)]],
     index |-> np_array(h.index),
     time |-> np_array(h.index),
     event |-> h.event]

\* vectorize_history: index, time and the series of every ball of the
\* history become arrays; the event list is not converted
vectorize_history(h) ==
    [balls |-> [id \in DOMAIN h.balls |->
                  [s |-> np_array(h.balls[id].s),
                   rvw |-> np_array(h.balls[id].rvw)]],
     index |-> np_array(h.index),
     time |-> np_array(h.time),
     event |-> h.event]

\* timestamp appends ball.rvw itself (line 136): the entries it adds are
\* the objects the live balls hold
Logged(h, bs) ==
    {<<bs[i].id, Len(h.balls[bs[i].id].rvw) + 1>> : i \in DOMAIN bs}

\* The logged entries still shared once the balls ids hold another object
Unalias(al, ids) == {p \in al : p[1] \notin ids}

\* The balls that evolve binds to a new rvw object: evolve_ball_motion
\* hands its argument back for a ball it does not move
FreshAfterEvolve(bs) ==
    {bs[i].id : i \in {j \in DOMAIN bs : bs[j].s \notin {stationary, pocketed}}}

\* The balls that resolve binds to a new rvw object: the agents of a
\* collision
FreshAfterResolve(ev) ==
    IF ev.event_type = "ball-ball" THEN {ev.agents[1], ev.agents[2]}
    ELSE IF ev.event_type = "ball-rail" THEN {ev.agents[1]}
    ELSE {}

NoCand == [tau |-> Inf, ids |-> <<>>]
NoCands == [m |-> [tau |-> Inf, ids |-> <<>>, e |-> NoType],
            bb |-> NoCand, br |-> NoCand]

\* No call has been made on the components beside the engine
NoCall == [op |-> "none", arg |-> None, out |-> "none"]
NoObject == [exists |-> FALSE]
AuxIdle ==
    /\ call = NoCall
    /\ cushion = NoObject
    /\ pt_table = NoObject
    /\ glob = NoObject
    /\ showbase = FALSE
    /\ mode = NoObject

Init ==
    /\ balls = <<>>
    /\ table = [rails |-> <<>>]
    /\ history = EmptyHistory
    /\ n = -1
    /\ time = 0
    /\ vectorized = FALSE
    /\ event = Event(NoType, <<>>, 0)
    /\ time_arg = None
    /\ cand = NoCands
    /\ pc = "new"
    /\ arrays = {}
    /\ alias = {}
    /\ old_history = EmptyHistory
    /\ dt_arg = None
    /\ dt_prime = None
    /\ event_time = 0
    /\ pos = 0
    /\ oracle = <<>>
    /\ AuxIdle

(***************************************************************************)
(* The caller sets the shot up: set_table, set_balls, then simulate.       *)
(***************************************************************************)
set_table ==
    /\ pc = "new"
    /\ \E nr \in 0..MaxRails : table' = [rails |-> [k \in 1..nr |-> k]]
    /\ pc' = "table"
    /\ UNCHANGED <<balls, history, n, time, vectorized, event, time_arg, cand>>
    /\ UNCHANGED <<arrays, alias, cvars>>
    /\ UNCHANGED aux

Moving == {sliding, rolling, spinning}

\* The time a ball handed to set_balls has left in its regime: the regime
\* is about to end, or has just begun
InitialLefts == {0, MaxTau}

set_balls ==
    /\ pc = "table"
    /\ \E nb \in 0..MaxBalls :
         \E ss \in [1..nb -> States], ls \in [1..nb -> InitialLefts] :
            /\ \A i \in 1..nb : ss[i] \notin Moving => ls[i] = 0
            /\ balls' = [i \in 1..nb |->
                           [id |-> i, s |-> ss[i],
                            rvw |-> [r |-> 0, c |-> 0, left |-> ls[i]]]]
    /\ pc' = "ready"
    /\ UNCHANGED <<table, history, n, time, vectorized, event, time_arg, cand>>
    /\ UNCHANGED <<arrays, alias, cvars>>
    /\ UNCHANGED aux

(***************************************************************************)
(* simulate (engine.py, lines 332-371).                                    *)
(***************************************************************************)
\* lines 333-355: touch_history, the placeholder event, timestamp(0, event)
SimulateStart ==
    /\ pc = "ready"
    /\ \E t \in {None} \cup (0..MaxTime) : time_arg' = t
    /\ LET ev == Event(NoType, <<>>, 0)
           h == touch_history(history, n, balls)
           ts == timestamp(h, n, time, balls, 0, ev)
       IN  /\ event' = ev
           /\ history' = ts.history
           /\ n' = ts.n
           /\ time' = ts.time
           /\ alias' = alias \cup Logged(h, balls)
    /\ pc' = "while"
    /\ UNCHANGED <<balls, table, vectorized, cand, arrays, cvars>>
    /\ UNCHANGED aux

\* line 356: the condition of the while loop
WhileTest(ev) == ev.tau < Inf

\* lines 356-357: the loop is entered and the next event is determined;
\* the model follows the loop for at most bound iterations
GetNextEventWithin(bound) ==
    /\ pc = "while"
    /\ WhileTest(event)
    /\ n < bound
    /\ \E o \in Oracles(Len(balls), Len(table.rails)) :
         LET res == get_next_event(balls, table.rails, o)
         IN  IF res.raised
             THEN /\ pc' = "raised"
                  /\ UNCHANGED <<event, cand>>
             ELSE /\ pc' = "evolve"
                  /\ event' = res.event
                  /\ cand' = [m |-> get_min_motion_event_time(balls),
                              bb |-> get_min_ball_ball_event_time(balls, o),
                              br |-> get_min_ball_rail_event_time(balls, table.rails, o)]
    /\ UNCHANGED <<balls, table, history, n, time, vectorized, time_arg>>
    /\ UNCHANGED <<arrays, alias, cvars>>
    /\ UNCHANGED aux

GetNextEvent == GetNextEventWithin(MaxEvents)

\* line 358: evolve(dt=event.tau, event=event); lines 387-399, the balls
Evolve ==
    /\ pc = "evolve"
    /\ balls' = EvolveBalls(balls, event.tau)
    /\ alias' = Unalias(alias, FreshAfterEvolve(balls))
    /\ cand' = NoCands
    /\ pc' = "resolve"
    /\ UNCHANGED <<table, history, n, time, vectorized, event, time_arg>>
    /\ UNCHANGED <<arrays, cvars>>
    /\ UNCHANGED aux

\* lines 401-402 of evolve: the event is resolved
Resolve ==
    /\ pc = "resolve"
    /\ balls' = resolve(balls, event)
    /\ alias' = Unalias(alias, FreshAfterResolve(event))
    /\ pc' = "log"
    /\ UNCHANGED <<table, history, n, time, vectorized, event, time_arg, cand>>
    /\ UNCHANGED <<arrays, cvars>>
    /\ UNCHANGED aux

\* lines 404-405 of evolve: timestamp(dt, event=event)
Log ==
    /\ pc = "log"
    /\ LET ts == timestamp(history, n, time, balls, event.tau, event)
       IN  /\ history' = ts.history
           /\ n' = ts.n
           /\ time' = ts.time
    /\ alias' = alias \cup Logged(history, balls)
    /\ pc' = "check"
    /\ UNCHANGED <<balls, table, vectorized, event, time_arg, cand>>
    /\ UNCHANGED <<arrays, cvars>>
    /\ UNCHANGED aux

\* Variant: the bound must be exceeded
BoundExceeded(t, bound) == bound # None /\ t > bound

\* lines 363-364: the time bound
BoundReached(t, bound) == bound # None /\ t >= bound

CheckBound ==
    /\ pc = "check"
    /\ pc' = IF BoundReached(time, time_arg) THEN "vectorize" ELSE "while"
    /\ UNCHANGED <<balls, table, history, n, time, vectorized, event, time_arg, cand>>
    /\ UNCHANGED <<arrays, alias, cvars>>
    /\ UNCHANGED aux

\* line 356: the condition of the while loop fails
WhileExit ==
    /\ pc = "while"
    /\ ~WhileTest(event)
    /\ pc' = "vectorize"
    /\ UNCHANGED <<balls, table, history, n, time, vectorized, event, time_arg, cand>>
    /\ UNCHANGED <<arrays, alias, cvars>>
    /\ UNCHANGED aux

\* line 366: vectorize_history, then simulate returns.  np.array copies
\* the logged entries, so none of them is a live ball's object afterwards.
Vectorize ==
    /\ pc = "vectorize"
    /\ history' = vectorize_history(history)
    /\ arrays' = SeriesKeys(history)
    /\ alias' = {}
    /\ vectorized' = TRUE
    /\ pc' = "done"
    /\ UNCHANGED <<balls, table, n, time, event, time_arg, cand, cvars>>
    /\ UNCHANGED aux

Next ==
    \/ set_table
    \/ set_balls
    \/ SimulateStart
    \/ GetNextEvent
    \/ Evolve
    \/ Resolve
    \/ Log
    \/ CheckBound
    \/ WhileExit
    \/ Vectorize

Spec == Init /\ [][Next]_vars

(***************************************************************************)
(* A shot that is simulated and then replayed: one ball on the table,      *)
(* simulate, then any sequence of continuize and simulate calls of the     *)
(* caller (engine.py, lines 139-175 for continuize).                       *)
(***************************************************************************)
\* set_balls with a single ball
set_one_ball ==
    /\ pc = "table"
    /\ \E s0 \in States, l0 \in InitialLefts :
         /\ s0 \notin Moving => l0 = 0
         /\ balls' = << [id |-> 1, s |-> s0,
                         rvw |-> [r |-> 0, c |-> 0, left |-> l0]] >>
    /\ pc' = "ready"
    /\ UNCHANGED <<table, history, n, time, vectorized, event, time_arg, cand>>
    /\ UNCHANGED <<arrays, alias, cvars>>
    /\ UNCHANGED aux

ReplayGetNextEvent == GetNextEventWithin(ReplayEvents)

Returned == {"done", "continuized"}

\* lines 140-150: the old history is kept, the log is reset, the balls are
\* set to the first sample of the old history, which is logged at time 0
ContinuizeStart ==
    /\ pc \in Returned
    /\ \E d \in 1..MaxDt : dt_arg' = d /\ dt_prime' = d
    /\ old_history' = history
    /\ LET fresh == reset_history(balls)
           bs == set_table_state_via_history(balls, history, 0)
           ts == timestamp(fresh.history, fresh.n, fresh.time, bs, 0, NoEvent)
       IN  /\ balls' = bs
           /\ history' = ts.history
           /\ n' = ts.n
           /\ time' = ts.time
           /\ vectorized' = fresh.vectorized
           /\ alias' = Logged(fresh.history, bs)
    /\ arrays' = {}
    /\ pos' = 1
    /\ pc' = "for"
    /\ UNCHANGED <<table, event, time_arg, cand, event_time, oracle>>
    /\ UNCHANGED aux

\* Variant: line 156 is missing, entries that are no Event are replayed too
ContinuizeForEveryEntry ==
    /\ pc = "for"
    /\ IF pos > Len(old_history.index)
       THEN /\ pc' = "c_vectorize"
            /\ UNCHANGED <<pos, event_time>>
       ELSE IF old_history.event[pos].tau = Inf
       THEN /\ pc' = "c_vectorize"
            /\ UNCHANGED <<pos, event_time>>
       ELSE /\ event_time' = 0
            /\ pc' = "c_while"
            /\ UNCHANGED pos
    /\ UNCHANGED <<balls, table, history, n, time, vectorized, event, time_arg, cand>>
    /\ UNCHANGED <<arrays, alias, old_history, dt_arg, dt_prime, oracle>>
    /\ UNCHANGED aux

\* lines 151-163: the next (index, event) of the old history; entries that
\* are no Event are passed over, an event with tau = inf ends the loop
ContinuizeFor ==
    /\ pc = "for"
    /\ IF pos > Len(old_history.index)
       THEN /\ pc' = "c_vectorize"
            /\ UNCHANGED <<pos, event_time>>
       ELSE IF ~IsEvent(old_history.event[pos])
       THEN /\ pos' = pos + 1
            /\ pc' = "for"
            /\ UNCHANGED event_time
       ELSE IF old_history.event[pos].tau = Inf
       THEN /\ pc' = "c_vectorize"
            /\ UNCHANGED <<pos, event_time>>
       ELSE /\ event_time' = 0
            /\ pc' = "c_while"
            /\ UNCHANGED pos
    /\ UNCHANGED <<balls, table, history, n, time, vectorized, event, time_arg, cand>>
    /\ UNCHANGED <<arrays, alias, old_history, dt_arg, dt_prime, oracle>>
    /\ UNCHANGED aux

\* Variant: a step is taken whenever the event has not been reached
StepStartsBefore(et, tau, step) == et < tau

\* line 164: the condition of the inner loop
StepFits(et, tau, step) == et < tau - step

\* lines 165-168: evolve(dt_prime), which logs the sample with event=None
ContinuizeStep ==
    /\ pc = "c_while"
    /\ StepFits(event_time, old_history.event[pos].tau, dt_prime)
    /\ LET bs == EvolveBalls(balls, dt_prime)
           ts == timestamp(history, n, time, bs, dt_prime, NoEvent)
       IN  /\ balls' = bs
           /\ history' = ts.history
           /\ n' = ts.n
           /\ time' = ts.time
           /\ alias' = Unalias(alias, FreshAfterEvolve(balls)) \cup Logged(history, bs)
    /\ event_time' = event_time + dt_prime
    /\ dt_prime' = dt_arg
    /\ UNCHANGED <<table, vectorized, event, time_arg, cand, pc>>
    /\ UNCHANGED <<arrays, old_history, dt_arg, pos, oracle>>
    /\ UNCHANGED aux

\* Variant: the step left over is dt - event.tau, the steps already taken
\* toward the event are not counted
ContinuizeEventCarryFromTau ==
    /\ pc = "c_while"
    /\ ~StepFits(event_time, old_history.event[pos].tau, dt_prime)
    /\ dt_prime' = dt_arg - old_history.event[pos].tau
    /\ balls' = set_table_state_via_history(balls, old_history, old_history.index[pos])
    /\ alias' = Unalias(alias, BallIds(balls))
    /\ pos' = pos + 1
    /\ pc' = "for"
    /\ UNCHANGED <<table, history, n, time, vectorized, event, time_arg, cand>>
    /\ UNCHANGED <<arrays, old_history, dt_arg, event_time, oracle>>
    /\ UNCHANGED aux

\* lines 170-172: the event is reached; the step left over is kept and the
\* balls are set to the state stored at the event's index
ContinuizeEvent ==
    /\ pc = "c_while"
    /\ ~StepFits(event_time, old_history.event[pos].tau, dt_prime)
    /\ dt_prime' = dt_arg - (old_history.event[pos].tau - event_time)
    /\ balls' = set_table_state_via_history(balls, old_history, old_history.index[pos])
    /\ alias' = Unalias(alias, BallIds(balls))
    /\ pos' = pos + 1
    /\ pc' = "for"
    /\ UNCHANGED <<table, history, n, time, vectorized, event, time_arg, cand>>
    /\ UNCHANGED <<arrays, old_history, dt_arg, event_time, oracle>>
    /\ UNCHANGED aux

\* line 174: vectorize_history, then continuize returns
ContinuizeVectorize ==
    /\ pc = "c_vectorize"
    /\ history' = vectorize_history(history)
    /\ arrays' = SeriesKeys(history)
    /\ alias' = {}
    /\ vectorized' = TRUE
    /\ pc' = "continuized"
    /\ UNCHANGED <<balls, table, n, time, event, time_arg, cand, cvars>>
    /\ UNCHANGED aux

\* The caller calls simulate on the history as simulate or continuize left
\* it (lines 333-355).  timestamp increments n, adds to time and appends to
\* history['time'] first: an array has no append, AttributeError is raised.
SimulateAgain ==
    /\ pc \in Returned
    /\ time_arg' = None
    /\ LET ev == Event(NoType, <<>>, 0)
           h == touch_history(history, n, balls)
           ts == timestamp(h, n, time, balls, 0, ev)
       IN  /\ event' = ev
           /\ n' = ts.n
           /\ time' = ts.time
           /\ IF <<"time", 0>> \in arrays
              THEN /\ history' = h
                   /\ pc' = "raised"
                   /\ UNCHANGED alias
              ELSE /\ history' = ts.history
                   /\ pc' = "while"
                   /\ alias' = alias \cup Logged(h, balls)
    /\ UNCHANGED <<balls, table, vectorized, cand, arrays, cvars>>
    /\ UNCHANGED aux

\* get_event_history_for_ball(ball_id), lines 93-96: the comprehension reads
\* event.agents of every logged entry, and None has no such attribute
Range(seq) == {seq[k] : k \in DOMAIN seq}

get_event_history_for_ball(h, ball_id) ==
    IF \E k \in DOMAIN h.event : ~IsEvent(h.event[k])
    THEN [out |-> "AttributeError", ret |-> <<>>]
    ELSE [out |-> "ok",
          ret |-> SelectSeq(h.event, LAMBDA e : ball_id \in Range(e.agents))]

\* The ids asked for: the ball of the shot, and an id no ball has
QueryIds == {1, 2}

\* The caller asks for a ball's events once simulate or continuize returned
GetEventHistory ==
    /\ pc \in Returned
    /\ \E ball_id \in QueryIds :
         LET res == get_event_history_for_ball(history, ball_id)
         IN  call' = [op |-> "get_event_history_for_ball", arg |-> ball_id,
                     out |-> res.out, ret |-> res.ret]
    /\ UNCHANGED <<engine, cushion, pt_table, glob, showbase, mode>>

NextReplay ==
    \/ set_table
    \/ set_one_ball
    \/ SimulateStart
    \/ ReplayGetNextEvent
    \/ Evolve
    \/ Resolve
    \/ Log
    \/ CheckBound
    \/ WhileExit
    \/ Vectorize
    \/ ContinuizeStart
    \/ ContinuizeFor
    \/ ContinuizeStep
    \/ ContinuizeEvent
    \/ ContinuizeVectorize
    \/ SimulateAgain
    \/ GetEventHistory

SpecReplay == Init /\ [][NextReplay]_vars

\* continuize is one call: once it has begun, its loops run on until it
\* returns, whatever the caller does afterwards
SpecReplayFair ==
    /\ SpecReplay
    /\ WF_vars(ContinuizeFor)
    /\ WF_vars(ContinuizeStep)
    /\ WF_vars(ContinuizeEvent)
    /\ WF_vars(ContinuizeVectorize)

(***************************************************************************)
(* The collision generators applied alone to any balls, rails and answers  *)
(* of the root-finding layer (engine.py, lines 499-560).                   *)
(***************************************************************************)
GenBalls ==
    UNION {{[i \in 1..nb |->
                [id |-> i, s |-> ss[i],
                 rvw |-> [r |-> 0, c |-> 0,
                          left |-> IF ss[i] \in Moving THEN MaxTau ELSE 0]]]
            : ss \in [1..nb -> States]} : nb \in 0..MaxBalls}

InitGen ==
    /\ balls \in GenBalls
    /\ table \in {[rails |-> [k \in 1..nr |-> k]] : nr \in 0..GenRails}
    /\ oracle \in Oracles(Len(balls), Len(table.rails))
    /\ history = EmptyHistory
    /\ n = -1
    /\ time = 0
    /\ vectorized = FALSE
    /\ event = Event(NoType, <<>>, 0)
    /\ time_arg = None
    /\ cand = NoCands
    /\ pc = "generators"
    /\ arrays = {}
    /\ alias = {}
    /\ old_history = EmptyHistory
    /\ dt_arg = None
    /\ dt_prime = None
    /\ event_time = 0
    /\ pos = 0
    /\ AuxIdle

\* get_min_ball_ball_event_time and get_min_ball_rail_event_time are called
ApplyGenerators ==
    /\ pc = "generators"
    /\ cand' = [m |-> NoCands.m,
                bb |-> get_min_ball_ball_event_time(balls, oracle),
                br |-> get_min_ball_rail_event_time(balls, table.rails, oracle)]
    /\ pc' = "generated"
    /\ UNCHANGED <<balls, table, history, n, time, vectorized, event, time_arg>>
    /\ UNCHANGED <<arrays, alias, cvars>>
    /\ UNCHANGED aux

NextGen == ApplyGenerators

SpecGen == InitGen /\ [][NextGen]_vars

(***************************************************************************)
(* The ShotHistory taken alone (engine.py, lines 37-136): a caller hands   *)
(* it balls and calls touch_history, init_ball_history and timestamp in    *)
(* any order.                                                              *)
(***************************************************************************)
MaxSamples == 2

\* The motion states of the balls handed over
HistStates == {stationary, rolling}

InitHistory ==
    /\ balls = <<>>
    /\ table = [rails |-> <<>>]
    /\ history = EmptyHistory
    /\ n = -1
    /\ time = 0
    /\ vectorized = FALSE
    /\ event = Event(NoType, <<>>, 0)
    /\ time_arg = None
    /\ cand = NoCands
    /\ pc = "caller"
    /\ arrays = {}
    /\ alias = {}
    /\ old_history = EmptyHistory
    /\ dt_arg = None
    /\ dt_prime = None
    /\ event_time = 0
    /\ pos = 0
    /\ oracle = <<>>
    /\ AuxIdle

HistUnchanged ==
    UNCHANGED <<table, vectorized, event, time_arg, cand, pc, arrays, alias,
                cvars, cushion, pt_table, glob, showbase, mode>>

\* set_balls(balls), line 383: the dict handed over replaces self.balls; it
\* holds any of the ids, here in increasing order
HistSetBalls ==
    /\ pc = "caller"
    /\ \E p \in [1..MaxBalls -> HistStates \cup {"absent"}] :
         balls' = SelectSeq([i \in 1..MaxBalls |->
                               [id |-> i, s |-> p[i],
                                rvw |-> [r |-> 0, c |-> 0, left |-> 0]]],
                            LAMBDA b : b.s # "absent")
    /\ call' = [op |-> "set_balls", arg |-> None, out |-> "ok"]
    /\ UNCHANGED <<history, n, time>>
    /\ HistUnchanged

\* touch_history(), lines 99-104
HistTouch ==
    /\ pc = "caller"
    /\ history' = touch_history(history, n, balls)
    /\ call' = [op |-> "touch_history", arg |-> None, out |-> "ok"]
    /\ UNCHANGED <<balls, n, time>>
    /\ HistUnchanged

\* init_ball_history(ball_id), lines 107-118, for any id
HistInitBall ==
    /\ pc = "caller"
    /\ \E ball_id \in 1..MaxBalls :
         IF init_ball_history_raises(balls, ball_id)
         THEN /\ call' = [op |-> "init_ball_history", arg |-> ball_id,
                          out |-> "ValueError"]
              /\ UNCHANGED history
         ELSE /\ call' = [op |-> "init_ball_history", arg |-> ball_id,
                          out |-> "ok"]
              /\ history' = init_ball_history(history, n, ball_id)
    /\ UNCHANGED <<balls, n, time>>
    /\ HistUnchanged

\* timestamp(dt), lines 121-136
HistTimestamp ==
    /\ pc = "caller"
    /\ Len(history.time) < MaxSamples
    /\ \E dt \in 0..1 :
         LET raises == timestamp_raises(history, balls)
             ts == IF raises
                   THEN timestamp_until_KeyError(history, n, time, balls, dt,
                                                 NoEvent)
                   ELSE timestamp(history, n, time, balls, dt, NoEvent)
         IN  /\ n' = ts.n
             /\ time' = ts.time
             /\ history' = ts.history
             /\ call' = [op |-> "timestamp", arg |-> dt,
                         out |-> IF raises THEN "KeyError" ELSE "ok"]
    /\ UNCHANGED balls
    /\ HistUnchanged

NextHistory == HistSetBalls \/ HistTouch \/ HistInitBall \/ HistTimestamp

SpecHistory == InitHistory /\ [][NextHistory]_vars

(***************************************************************************)
(* Cushion and Table (pooltool/objects/table.py, lines 60-113).            *)
(* Coordinates are integers and the quotients of the line coefficients     *)
(* are exact fractions [num, den] in lowest terms, den > 0.                *)
(***************************************************************************)
MaxCoord == 2
Coords == 0..MaxCoord

\* float('nan'): the one number that differs from itself
float_nan == -2

\* A cushion height: a number, or nan
Heights == {0, 1, float_nan}

\* p1z != p2z on floats (line 99)
FloatNe(a, b) == a = float_nan \/ b = float_nan \/ a # b

\* "x or default" (lines 67-72): None and 0 are falsy, nan is not
Or(x, default) == IF x = None \/ x = 0 THEN default ELSE x

AbsInt(i) == IF i < 0 THEN -i ELSE i

RECURSIVE GCD(_, _)
GCD(a, b) == IF b = 0 THEN a ELSE GCD(b, a % b)

\* a / b in lowest terms, b # 0
Div(a, b) ==
    LET g == GCD(AbsInt(a), AbsInt(b))
        sgn == IF b < 0 THEN -1 ELSE 1
    IN  [num |-> sgn * (a \div g), den |-> sgn * (b \div g)]

Num(i) == [num |-> i, den |-> 1]
Neg(q) == [num |-> -q.num, den |-> q.den]
Mul(q, r) == Div(q.num * r.num, q.den * r.den)
Plus(q, r) == Div(q.num * r.den + r.num * q.den, q.den * r.den)
Minus(q, r) == Plus(q, Neg(r))

\* utils.unit_vector(v): v scaled to length 1
unit_vector(v) == [direction |-> v, length |-> 1]

\* Variant: the intercept is taken at the origin, l0 = -p1y
CushionLineThroughOrigin(p1, p2) ==
    IF p2[1] - p1[1] = 0
    THEN [lx |-> Num(1), ly |-> Num(0), l0 |-> Num(-p1[1])]
    ELSE LET k == Div(p2[2] - p1[2], p2[1] - p1[1])
         IN  [lx |-> Neg(k), ly |-> Num(1), l0 |-> Neg(Num(p1[2]))]

\* Lines 103-110 of Cushion.__init__: lx, ly and l0
CushionLine(p1, p2) ==
    IF p2[1] - p1[1] = 0
    THEN [lx |-> Num(1), ly |-> Num(0), l0 |-> Num(-p1[1])]
    ELSE LET k == Div(p2[2] - p1[2], p2[1] - p1[1])
         IN  [lx |-> Neg(k), ly |-> Num(1),
              l0 |-> Minus(Mul(k, Num(p1[1])), Num(p1[2]))]

\* Variant: the heights of the two points are not compared
CushionAnyHeights(cushion_id, p1, p2) ==
    LET line == CushionLine(p1, p2)
    IN  [raised |-> FALSE,
         obj |-> [exists |-> TRUE, id |-> cushion_id, p1 |-> p1, p2 |-> p2,
                  height |-> p1[3],
                  lx |-> line.lx, ly |-> line.ly, l0 |-> line.l0,
                  normal |-> unit_vector(<<line.lx, line.ly, Num(0)>>)]]

\* Cushion(cushion_id, p1, p2), lines 90-113: ValueError and no object when
\* the heights differ, the cushion otherwise
Cushion(cushion_id, p1, p2) ==
    IF FloatNe(p1[3], p2[3])
    THEN [raised |-> TRUE, obj |-> NoObject]
    ELSE LET line == CushionLine(p1, p2)
         IN  [raised |-> FALSE,
              obj |-> [exists |-> TRUE, id |-> cushion_id, p1 |-> p1,
                       p2 |-> p2, height |-> p1[3],
                       lx |-> line.lx, ly |-> line.ly, l0 |-> line.l0,
                       normal |-> unit_vector(<<line.lx, line.ly, Num(0)>>)]]

\* pooltool.table_width, pooltool.table_length and pooltool.cushion_height,
\* the defaults of the package
table_width == 1
table_length == 2
cushion_height == 1

CushionIds == {"L", "R", "B", "T"}

\* Table(w, l, cushion_height=h), lines 63-84, with the fields that place
\* the cushions.  The first cushion that raises ends the construction.
Table(w_arg, l_arg, h_arg) ==
    LET w == Or(w_arg, table_width)
        l == Or(l_arg, table_length)
        h == Or(h_arg, cushion_height)
        built == [L |-> Cushion("L", <<0, 0, h>>, <<0, l, h>>),
                  R |-> Cushion("R", <<w, 0, h>>, <<w, l, h>>),
                  B |-> Cushion("B", <<0, 0, h>>, <<w, 0, h>>),
                  T |-> Cushion("T", <<0, l, h>>, <<w, l, h>>)]
    IN  IF \E c \in CushionIds : built[c].raised
        THEN [raised |-> TRUE, obj |-> NoObject]
        ELSE [raised |-> FALSE,
              obj |-> [exists |-> TRUE, w |-> w, l |-> l,
                       cushion_height |-> h,
                       center |-> <<Div(w, 2), Div(l, 2)>>,
                       cushions |-> [c \in CushionIds |-> built[c].obj]]]

InitTable == InitHistory

Points == Coords \X Coords \X Heights

\* A caller constructs a cushion from any two points, and keeps the object
\* constructed last
NewCushion ==
    /\ pc = "caller"
    /\ \E p1 \in Points, p2 \in Points :
         LET res == Cushion("c", p1, p2)
         IN  /\ cushion' = res.obj
             /\ call' = [op |-> "Cushion", arg |-> <<p1, p2>>,
                         out |-> IF res.raised THEN "ValueError" ELSE "ok"]
    /\ pt_table' = NoObject
    /\ UNCHANGED <<engine, glob, showbase, mode>>

\* A caller constructs a table, and keeps the object constructed last
NewTable ==
    /\ pc = "caller"
    /\ \E w \in {None} \cup Coords, l \in {None} \cup Coords,
          h \in {None} \cup Heights :
         LET res == Table(w, l, h)
         IN  /\ pt_table' = res.obj
             /\ call' = [op |-> "Table", arg |-> <<w, l, h>>,
                         out |-> IF res.raised THEN "ValueError" ELSE "ok"]
    /\ cushion' = NoObject
    /\ UNCHANGED <<engine, glob, showbase, mode>>

NextTable == NewCushion \/ NewTable

SpecTable == InitTable /\ [][NextTable]_vars

(***************************************************************************)
(* The Global namespace and require_showbase (pooltool/ani/globals.py).    *)
(* An instance is its __dict__ (dict) and its _custom_registry, which is   *)
(* the set made by __init__ until a number is assigned over it.  False is  *)
(* 0 and True is 1, as in Python.                                          *)
(***************************************************************************)
\* The values assigned and registered
Values == {0, 1}

\* The names assigned to and registered
AttrNames == {"x", "y", "clock", "_freeze", "_custom_registry", "base"}

\* Lines 69-87: the read-only properties, each wrapped by require_showbase
Properties == {"base", "render", "task_mgr", "loader"}

\* Lines 50-54 and 56-94: what the class itself defines
ClassAttrs ==
    {"_freeze", "clock", "aspect2d", "render2d", "__init__", "__setattr__",
     "register"}

\* Variant: the wrapped function is called whether or not ShowBase exists
require_showbase_unchecked(sb, result) ==
    [out |-> "ok", executed |-> TRUE, ret |-> result]

\* require_showbase(func), lines 17-29: a call of the wrapper, result being
\* what func returns for the arguments of the call
require_showbase(sb, result) ==
    IF sb
    THEN [out |-> "ok", executed |-> TRUE, ret |-> result]
    ELSE [out |-> "ConfigError", executed |-> FALSE, ret |-> <<>>]

\* self._freeze: the instance attribute, or the class attribute of line 50
Freeze(g) == IF "_freeze" \in DOMAIN g.dict THEN g.dict["_freeze"] ELSE 0

\* hasattr(self, key), line 61: True, False, or the ConfigError of a
\* property read before ShowBase exists, which hasattr lets through
hasattr(g, sb, key) ==
    IF key \in Properties
    THEN (IF require_showbase(sb, <<>>).out = "ok" THEN "True"
          ELSE "ConfigError")
    ELSE IF key \in DOMAIN g.dict \cup ClassAttrs
            \/ (key = "_custom_registry" /\ g.has_registry)
         THEN "True"
         ELSE "False"

\* object.__setattr__(self, key, val), line 67: a property has no setter
object_setattr(g, key, val) ==
    IF key \in Properties
    THEN [out |-> "AttributeError", g |-> g]
    ELSE IF key = "_custom_registry"
         THEN [out |-> "ok",
               g |-> [g EXCEPT !.has_registry = TRUE,
                               !.registry_is_set = FALSE,
                               !.registry = {},
                               !.registry_number = val]]
         ELSE [out |-> "ok",
               g |-> [g EXCEPT !.dict =
                        [k \in DOMAIN g.dict \cup {key} |->
                            IF k = key THEN val ELSE g.dict[k]]]]

\* _Global.__setattr__(key, val), lines 60-67
Global_setattr(g, sb, key, val) ==
    IF Freeze(g) # 0
    THEN LET has == hasattr(g, sb, key)
         IN  IF has = "ConfigError" THEN [out |-> "ConfigError", g |-> g]
             ELSE IF has = "False" THEN [out |-> "TypeError", g |-> g]
             ELSE object_setattr(g, key, val)
    ELSE object_setattr(g, key, val)

\* Variant: the name is not recorded in _custom_registry
register_unrecorded(g, sb, name, var) ==
    LET s1 == Global_setattr(g, sb, "_freeze", 0)
        s2 == Global_setattr(s1.g, sb, name, var)
        s3 == Global_setattr(s2.g, sb, "_freeze", 1)
    IN  IF s2.out # "ok" THEN s2
        ELSE IF ~s3.g.registry_is_set
        THEN [out |-> "AttributeError", g |-> s3.g]
        ELSE [out |-> "ok", g |-> s3.g]

\* register(name, var), lines 89-94: an exception of line 92 leaves the
\* method before line 93; line 94 needs _custom_registry to be a set
register(g, sb, name, var) ==
    LET s1 == Global_setattr(g, sb, "_freeze", 0)
        s2 == Global_setattr(s1.g, sb, name, var)
        s3 == Global_setattr(s2.g, sb, "_freeze", 1)
    IN  IF s2.out # "ok" THEN s2
        ELSE IF ~s3.g.registry_is_set
        THEN [out |-> "AttributeError", g |-> s3.g]
        ELSE [out |-> "ok",
              g |-> [s3.g EXCEPT !.registry = s3.g.registry \cup {name}]]

\* _Global(), lines 56-58 and 97: the two assignments of __init__ pass
\* through __setattr__ while the class attribute _freeze is False
Global_new ==
    LET blank == [exists |-> TRUE, dict |-> <<>>, has_registry |-> FALSE,
                  registry_is_set |-> FALSE, registry |-> {},
                  registry_number |-> 0]
        s1 == [blank EXCEPT !.has_registry = TRUE, !.registry_is_set = TRUE]
    IN  Global_setattr(s1, FALSE, "_freeze", 1).g

\* The function a caller wraps with require_showbase
func(arg) == <<"func", arg>>

\* What a property returns (lines 72, 77, 82, 87)
ShowBaseGlobal(name) == <<"ShowBaseGlobal.base", name>>

InitGlobal ==
    /\ balls = <<>>
    /\ table = [rails |-> <<>>]
    /\ history = EmptyHistory
    /\ n = -1
    /\ time = 0
    /\ vectorized = FALSE
    /\ event = Event(NoType, <<>>, 0)
    /\ time_arg = None
    /\ cand = NoCands
    /\ pc = "caller"
    /\ arrays = {}
    /\ alias = {}
    /\ old_history = EmptyHistory
    /\ dt_arg = None
    /\ dt_prime = None
    /\ event_time = 0
    /\ pos = 0
    /\ oracle = <<>>
    /\ call = NoCall
    /\ cushion = NoObject
    /\ pt_table = NoObject
    /\ glob = Global_new
    /\ showbase = FALSE
    /\ mode = NoObject

\* Global.key = val
Assign ==
    /\ pc = "caller"
    /\ \E key \in AttrNames, val \in Values :
         LET res == Global_setattr(glob, showbase, key, val)
         IN  /\ glob' = res.g
             /\ call' = [op |-> "setattr", arg |-> <<key, val>>,
                         out |-> res.out, executed |-> FALSE, ret |-> <<>>]
    /\ UNCHANGED <<engine, cushion, pt_table, showbase, mode>>

\* Global.register(name, var)
Register ==
    /\ pc = "caller"
    /\ \E name \in AttrNames, var \in Values :
         LET res == register(glob, showbase, name, var)
         IN  /\ glob' = res.g
             /\ call' = [op |-> "register", arg |-> <<name, var>>,
                         out |-> res.out, executed |-> FALSE, ret |-> <<>>]
    /\ UNCHANGED <<engine, cushion, pt_table, showbase, mode>>

\* Global.base, Global.render, Global.task_mgr, Global.loader
ReadProperty ==
    /\ pc = "caller"
    /\ \E name \in Properties :
         LET res == require_showbase(showbase, ShowBaseGlobal(name))
         IN  call' = [op |-> "getattr", arg |-> name, out |-> res.out,
                      executed |-> res.executed, ret |-> res.ret]
    /\ UNCHANGED <<engine, cushion, pt_table, glob, showbase, mode>>

\* require_showbase(func)(arg)
CallWrapped ==
    /\ pc = "caller"
    /\ \E arg \in Values :
         LET res == require_showbase(showbase, func(arg))
         IN  call' = [op |-> "wrapper", arg |-> arg, out |-> res.out,
                      executed |-> res.executed, ret |-> res.ret]
    /\ UNCHANGED <<engine, cushion, pt_table, glob, showbase, mode>>

\* ShowBase(): Panda3d adds base to ShowBaseGlobal
StartShowBase ==
    /\ pc = "caller"
    /\ ~showbase
    /\ showbase' = TRUE
    /\ call' = [op |-> "ShowBase", arg |-> <<>>, out |-> "ok",
                executed |-> FALSE, ret |-> <<>>]
    /\ UNCHANGED <<engine, cushion, pt_table, glob, mode>>

NextGlobal ==
    Assign \/ Register \/ ReadProperty \/ CallWrapped \/ StartShowBase

SpecGlobal == InitGlobal /\ [][NextGlobal]_vars

(***************************************************************************)
(* ShotMode.enter and ShotMode.exit (pooltool/ani/modes/shot.py).  The     *)
(* mode acts on the shots collection, the cue, the camera, the tasks and   *)
(* the balls, through methods named in shot.py and defined elsewhere.      *)
(***************************************************************************)
ModeBalls == 2
MaxShots == 2

\* The keys exit is called with: those of line 99, and another one
ExitKeys == {"end", "reset", "soft"}
Keys == ExitKeys \cup {"hard"}

\* The tasks that enter adds (lines 84-85)
ShotTasks == {"shot_view_task", "shot_animation_task"}

\* Mode.add_task and Mode.remove_task, on the set of task names
add_task(tasks, name) == tasks \cup {name}
remove_task(tasks, name) == tasks \ {name}

\* BallHistory: is_populated() and reset()
is_populated(h) == Len(h.rvw) > 0
NoBallHistory == [rvw |-> <<>>, s |-> <<>>]

\* The balls a mode can hold when it is entered: a ball whose history is
\* populated is in the last state of its history, at time 1
ModeBallStates ==
    {[rvw |-> r, s |-> s, t |-> t, history |-> NoBallHistory, angle |-> a,
      rendered |-> FALSE]
        : r \in 0..1, s \in HistStates, t \in 0..1, a \in 0..1}
    \cup
    {[rvw |-> 1, s |-> s1, t |-> 1,
      history |-> [rvw |-> <<r0, 1>>, s |-> <<s0, s1>>], angle |-> a,
      rendered |-> FALSE]
        : r0 \in 0..1, s0 \in HistStates, s1 \in HistStates, a \in 0..1}

\* Lines 111-112, for one ball: reset_angular_integration() and
\* set_render_state_as_object_state()
EndBall(b) == [b EXCEPT !.angle = 0, !.rendered = TRUE]

\* Variant: the ball is left in its last state, only its history is reset
ResetBallKeepsState(b) ==
    [b EXCEPT !.rendered = TRUE, !.history = NoBallHistory]

\* Lines 121-129, for one ball
ResetBall(b) ==
    LET rewound == IF is_populated(b.history)
                   THEN [b EXCEPT !.rvw = b.history.rvw[1],
                                  !.s = b.history.s[1],
                                  !.t = 0]
                   ELSE b
    IN  [rewound EXCEPT !.rendered = TRUE, !.history = NoBallHistory]

\* Variant: only the view task is removed
ExitTasksViewOnly(m) ==
    [m EXCEPT !.tasks = remove_task(m.tasks, "shot_view_task")]

\* Lines 134-135
ExitTasks(m) ==
    [m EXCEPT !.tasks = remove_task(remove_task(m.tasks, "shot_view_task"),
                                    "shot_animation_task")]

\* exit(key), lines 88-135
ShotMode_exit(m, key) ==
    IF key \notin ExitKeys
    THEN [out |-> "AssertionError", m |-> m]
    ELSE LET body ==
               IF key = "end"
               THEN [m EXCEPT !.animating = FALSE,
                              !.cue = "reset",
                              !.balls = [i \in DOMAIN m.balls |->
                                            EndBall(m.balls[i])],
                              !.shots = 0]
               ELSE IF key = "reset"
               THEN [m EXCEPT !.animating = FALSE,
                              !.cam = "stroke",
                              !.balls = [i \in DOMAIN m.balls |->
                                            ResetBall(m.balls[i])],
                              !.shots = 0]
               ELSE m
         IN  [out |-> "ok", m |-> ExitTasks(body)]

\* enter(init_animations), lines 42-85, with what exit acts on: the
\* animation started at lines 47-48 and the tasks added at lines 84-85
ShotMode_enter(m, init_animations) ==
    [m EXCEPT !.animating = m.animating \/ init_animations,
              !.tasks = add_task(add_task(m.tasks, "shot_view_task"),
                                 "shot_animation_task")]

InitShotMode ==
    /\ balls = <<>>
    /\ table = [rails |-> <<>>]
    /\ history = EmptyHistory
    /\ n = -1
    /\ time = 0
    /\ vectorized = FALSE
    /\ event = Event(NoType, <<>>, 0)
    /\ time_arg = None
    /\ cand = NoCands
    /\ pc = "caller"
    /\ arrays = {}
    /\ alias = {}
    /\ old_history = EmptyHistory
    /\ dt_arg = None
    /\ dt_prime = None
    /\ event_time = 0
    /\ pos = 0
    /\ oracle = <<>>
    /\ call = NoCall
    /\ cushion = NoObject
    /\ pt_table = NoObject
    /\ glob = NoObject
    /\ showbase = FALSE
    /\ \E bs \in [1..ModeBalls -> ModeBallStates], k \in 1..MaxShots :
         mode = [exists |-> TRUE, active |-> FALSE, animating |-> FALSE,
                 tasks |-> {}, shots |-> k, cue |-> "struck",
                 cam |-> "free", balls |-> bs]

\* The mode is entered
ModeEnter ==
    /\ pc = "caller"
    /\ ~mode.active
    /\ \E init_animations \in BOOLEAN :
         /\ mode' = [ShotMode_enter(mode, init_animations)
                        EXCEPT !.active = TRUE]
         /\ call' = [op |-> "enter", arg |-> init_animations, out |-> "ok"]
    /\ UNCHANGED <<engine, cushion, pt_table, glob, showbase>>

\* The mode is left with exit(key); a key that fails the assertion leaves
\* the mode entered
ModeExit ==
    /\ pc = "caller"
    /\ mode.active
    /\ \E key \in Keys :
         LET res == ShotMode_exit(mode, key)
         IN  /\ mode' = [res.m EXCEPT !.active = (res.out # "ok")]
             /\ call' = [op |-> "exit", arg |-> key, out |-> res.out]
    /\ UNCHANGED <<engine, cushion, pt_table, glob, showbase>>

NextShotMode == ModeEnter \/ ModeExit

SpecShotMode == InitShotMode /\ [][NextShotMode]_vars

(***************************************************************************)
(* Properties of get_next_event.  In a state with pc = "evolve" the call   *)
(* has just returned event, chosen from the candidates in cand.            *)
(***************************************************************************)
Min2(a, b) == IF a <= b THEN a ELSE b
MinTau == Min2(cand.m.tau, Min2(cand.bb.tau, cand.br.tau))
MotionCandidate == Event(cand.m.e, cand.m.ids, cand.m.tau)
BallBallCandidate == Event("ball-ball", cand.bb.ids, cand.bb.tau)
BallRailCandidate == Event("ball-rail", cand.br.ids, cand.br.tau)

\* C1: the next event is chosen by tau alone, and among candidates of equal
\* tau the generator examined first wins: the motion transition beats
\* ball-ball and ball-rail, ball-ball beats ball-rail.
C1_TieBreakByGeneratorOrder ==
    pc = "evolve" =>
        /\ (cand.m.tau < Inf /\ cand.m.tau <= cand.bb.tau /\ cand.m.tau <= cand.br.tau)
              => event = MotionCandidate
        /\ (cand.bb.tau < cand.m.tau /\ cand.bb.tau <= cand.br.tau)
              => event = BallBallCandidate
        /\ (cand.br.tau < cand.m.tau /\ cand.br.tau < cand.bb.tau)
              => event = BallRailCandidate

\* C1 witness: the three generators return the same finite tau
C1_ThreeWayTie ==
    /\ pc = "evolve"
    /\ cand.m.tau < Inf
    /\ cand.m.tau = cand.bb.tau
    /\ cand.bb.tau = cand.br.tau

\* C2: the returned tau is the minimum of the three candidate taus, the
\* event is a candidate attaining it, a candidate of tau +inf is never
\* selected, and with all candidates at +inf the event is (None, (), +inf).
C2_EventIsMinimumCandidate ==
    pc = "evolve" =>
        /\ event.tau = MinTau
        /\ event.tau < Inf =>
              event \in {c \in {MotionCandidate, BallBallCandidate, BallRailCandidate} :
                           c.tau = MinTau}
        /\ event.tau = Inf => event = Event(NoType, <<>>, Inf)

\* C2 witness: one candidate at +inf, the minimum attained by the generator
\* examined last
C2_RailCollisionIsMinimum ==
    /\ pc = "evolve"
    /\ cand.bb.tau = Inf
    /\ cand.br.tau < cand.m.tau
    /\ cand.m.tau < Inf

(***************************************************************************)
(* Properties of simulate.  Sample 1 of the history is the configuration   *)
(* simulate started from.                                                  *)
(***************************************************************************)
Started == pc \notin {"new", "table", "ready"}
InitialS(i) == history.balls[balls[i].id].s[1]
InitialRvw(i) == history.balls[balls[i].id].rvw[1]
StartedAtRest == Started /\ \A i \in DOMAIN balls : InitialS(i) = stationary
AllStationary == \A i \in DOMAIN balls : balls[i].s = stationary

\* C3: started with every ball stationary, get_next_event returns tau = +inf
\* whatever the balls and rails, the loop ends after that one call, and every
\* ball keeps the rvw and s it started with.
C3_RestStaysAtRest ==
    StartedAtRest =>
        /\ pc # "raised"
        /\ pc \in {"evolve", "resolve", "log", "check"} => event.tau = Inf
        /\ (pc = "while" /\ n >= 1) => event.tau = Inf
        /\ n <= 1
        /\ \A i \in DOMAIN balls :
              balls[i].s = InitialS(i) /\ balls[i].rvw = InitialRvw(i)

\* C3 witness: simulate has returned for several balls at rest and a rail
C3_RestRunDone ==
    /\ StartedAtRest
    /\ pc = "done"
    /\ Len(balls) >= 2
    /\ Len(table.rails) >= 1

\* C4: when the minimum tau is +inf the loop ends before the balls are
\* evolved and before a sample is logged for that event, so that no logged
\* event has tau +inf and every logged time and self.time are finite.
C4_NoSampleForInfiniteTau ==
    /\ time < Inf
    /\ \A k \in DOMAIN history.time : history.time[k] < Inf
    /\ \A k \in DOMAIN history.event : history.event[k].tau < Inf

\* C5: get_next_event never raises, whatever the motion states of the
\* balls and their order.
C5_NextEventNeverRaises == pc # "raised"

\* C6: in every iteration every ball, agent of the event or not, is advanced
\* by the tau of the selected event under the motion state it has at the
\* start of the iteration, and this happens before the event is resolved.
C6_AllBallsEvolveByTau ==
    [][pc = "evolve" =>
          /\ pc' = "resolve"
          /\ Len(balls') = Len(balls)
          /\ \A i \in DOMAIN balls :
                /\ balls'[i].id = balls[i].id
                /\ balls'[i].rvw.r =
                      IF balls[i].s \in Moving
                      THEN Add(balls[i].rvw.r, event.tau)
                      ELSE balls[i].rvw.r
                /\ balls'[i].rvw.c = balls[i].rvw.c
                /\ balls[i].s \in {stationary, pocketed} => balls'[i] = balls[i]
                /\ (balls[i].s \in Moving /\ event.tau < balls[i].rvw.left)
                      => balls'[i].s = balls[i].s]_vars

\* C6 witness: a moving ball that is no agent of the event has been
\* advanced by a positive tau and the event is yet to be resolved
C6_BystanderAdvanced ==
    /\ pc = "resolve"
    /\ event.tau > 0
    /\ event.event_type = "ball-ball"
    /\ \E i \in DOMAIN balls :
          /\ balls[i].id \notin {event.agents[1], event.agents[2]}
          /\ balls[i].rvw.r = event.tau

\* The balls an event names
AgentBalls(ev) ==
    IF ev.event_type = "ball-ball" THEN {ev.agents[1], ev.agents[2]}
    ELSE IF ev.event_type = "ball-rail" THEN {ev.agents[1]}
    ELSE {}

\* C7: resolve changes the rvw and s of the event's agents only: the two
\* balls of a ball-ball event, the ball of a ball-rail event (the table and
\* its rails stay as they are), and no ball for an event of type None or of
\* a motion-transition type.
C7_ResolveChangesAgentsOnly ==
    [][pc = "resolve" =>
          /\ Len(balls') = Len(balls)
          /\ table' = table
          /\ \A i \in DOMAIN balls :
                balls[i].id \notin AgentBalls(event) => balls'[i] = balls[i]]_vars

\* C7 witness: a ball-ball event has been resolved with a third ball present
C7_BallBallResolvedAmongThree ==
    /\ pc = "log"
    /\ event.event_type = "ball-ball"
    /\ Len(balls) >= 3

\* The motion state a ball had in the last sample logged
LastLoggedS(id) == history.balls[id].s[Len(history.balls[id].s)]

\* C8: once a ball-ball event is resolved both of its balls are sliding, and
\* once a ball-rail event is resolved its ball is sliding, whatever their
\* states before.
C8_CollisionSetsSliding ==
    pc = "log" =>
        \A i \in DOMAIN balls :
            balls[i].id \in AgentBalls(event) => balls[i].s = sliding

\* C8 witness: a ball-ball event has been resolved, one of whose balls was
\* stationary
C8_StationaryBallHit ==
    /\ pc = "log"
    /\ event.event_type = "ball-ball"
    /\ \E a \in AgentBalls(event) : LastLoggedS(a) = stationary

\* C9: with a time bound T the bound is tested once per iteration, after
\* the event of the iteration is evolved, resolved and logged; the loop is
\* left after the first iteration at whose end the accumulated time is >= T;
\* simulate then returns with the history vectorized, holding the initial
\* sample and one sample per completed event.
C9_InLoop == pc \in {"while", "evolve", "resolve", "log"}

C9_BoundEndsLoop ==
    time_arg # None =>
        /\ (C9_InLoop /\ n >= 1) => time < time_arg
        /\ pc = "check" => Len(history.time) = n + 1 /\ history.time[n + 1] = time
        /\ pc \in {"vectorize", "done"} =>
              /\ time >= time_arg
              /\ n >= 1
              /\ \A k \in 2..n : history.time[k] < time_arg
        /\ pc = "done" =>
              /\ vectorized
              /\ Len(history.index) = n + 1
              /\ Len(history.time) = n + 1
              /\ Len(history.event) = n + 1
              /\ history.event[1] = Event(NoType, <<>>, 0)
              /\ history.event[n + 1] = event
              /\ \A i \in DOMAIN balls :
                    /\ Len(history.balls[balls[i].id].s) = n + 1
                    /\ Len(history.balls[balls[i].id].rvw) = n + 1

\* C9 witness: simulate has returned because the second event reached the
\* bound, with further events to come
C9_StoppedByBound ==
    /\ pc = "done"
    /\ time_arg = 1
    /\ n = 2
    /\ event.tau < Inf
    /\ history.time[2] < time_arg

\* C10: without a time bound the loop is left only when the next event has
\* tau = +inf, and every ball is then stationary; with a time bound it is
\* also left once the accumulated time has reached the bound; there is no
\* other way out (a pocketed ball has no motion-transition time at all and
\* is outside the claim's assumption).
C10_LoopExits ==
    /\ pc \in {"vectorize", "done"} =>
          \/ event.tau = Inf /\ AllStationary
          \/ time_arg # None /\ time >= time_arg /\ n >= 1
    /\ pc = "raised" => \E i \in DOMAIN balls : balls[i].s = pocketed

\* C10 witness: an unbounded simulate has returned after two events
C10_UnboundedRunDone ==
    /\ pc = "done"
    /\ time_arg = None
    /\ n = 2
    /\ Len(balls) >= 2

(***************************************************************************)
(* Properties of the history: timestamp, vectorize_history, continuize.    *)
(***************************************************************************)
Samples(h) == Len(h.index)

\* C11: every timestamp call that returns appends one entry to index, time
\* and event and one s and one rvw for every ball of self.balls, so after
\* reset_history and any number of timestamp calls the k-th index logged is
\* k (counted from 0), self.n is the number of samples less one, and every
\* series has that many entries.
C11_IndexCountsSamples ==
    pc # "raised" =>
        /\ n = Samples(history) - 1
        /\ \A k \in 1..Samples(history) : history.index[k] = k - 1
        /\ Len(history.time) = Samples(history)
        /\ Len(history.event) = Samples(history)
        /\ \A i \in DOMAIN balls :
              balls[i].id \in DOMAIN history.balls =>
                 /\ Len(history.balls[balls[i].id].s) = Samples(history)
                 /\ Len(history.balls[balls[i].id].rvw) = Samples(history)

\* C11 witness: continuize has reset the history and logged three samples
C11_ThreeSamplesAfterReset ==
    /\ pc = "c_while"
    /\ Samples(history) = 3

\* C12: in the history simulate builds, sample 0 is the placeholder event
\* with tau 0 at time 0, every iteration of the loop logs one sample, the
\* event logged with it is the event just evolved and resolved, and the time
\* logged is the time of the sample before plus that event's tau.
C12_TimeIsCumulative ==
    pc \in {"while", "evolve", "resolve", "log", "check", "vectorize", "done"} =>
        /\ history.event[1] = Event(NoType, <<>>, 0)
        /\ history.time[1] = 0
        /\ Len(history.event) = n + 1
        /\ \A k \in 2..Len(history.time) :
              /\ history.time[k] = Add(history.time[k - 1], history.event[k].tau)
              /\ history.time[k] >= history.time[k - 1]
        /\ pc = "check" =>
              /\ history.event[n + 1] = event
              /\ history.time[n + 1] = time
              /\ \A i \in DOMAIN balls :
                    /\ LastLoggedS(balls[i].id) = balls[i].s
                    /\ history.balls[balls[i].id].rvw[n + 1] = balls[i].rvw

\* C12 witness: two events with a positive tau have been logged
C12_TwoTimedEvents ==
    /\ pc = "done"
    /\ Len(history.time) >= 3
    /\ history.time[2] > 0
    /\ history.time[3] > history.time[2]
    /\ history.time[3] < Inf

\* C13: the history holds snapshots: no logged rvw is the object a live
\* ball holds as its rvw, so nothing that evolve, resolve, timestamp or
\* set_table_state_via_history does to the live balls can reach a sample
\* already logged.
C13_LoggedSamplesAreSnapshots == alias = {}

\* C14: vectorize_history changes the representation only: index, time and
\* every ball's s and rvw keep their length, order and values and become
\* arrays, the event list is left as it is, and of the fields of the shot
\* only the vectorized flag changes, to True.
C14_VectorizeIsRepresentational ==
    [][(vectorized' /\ ~vectorized) =>
          /\ history'.index = history.index
          /\ history'.time = history.time
          /\ history'.event = history.event
          /\ DOMAIN history'.balls = DOMAIN history.balls
          /\ \A id \in DOMAIN history.balls :
                /\ history'.balls[id].s = history.balls[id].s
                /\ history'.balls[id].rvw = history.balls[id].rvw
          /\ arrays' = SeriesKeys(history)
          /\ UNCHANGED <<balls, table, n, time>>]_vars

\* C14 witness: a history whose times differ from its indices is vectorized
C14_TimedHistoryVectorized ==
    /\ pc = "done"
    /\ vectorized
    /\ arrays = SeriesKeys(history)
    /\ Samples(history) >= 2
    /\ history.time[2] # history.index[2]

\* C15: whatever the caller's sequence of simulate, continuize and
\* reset_history calls, timestamp (the one operation that increments
\* self.n) is executed only while the vectorized flag is False.
C15_TimestampOnlyOnLists == [][n' = n + 1 => ~vectorized]_vars

(***************************************************************************)
(* Properties of continuize.  old_history is the history being replayed;   *)
(* a history built by simulate holds an Event at every sample.  The one    *)
(* ball of a replayed shot moves from the start of the shot until its last *)
(* finite event, so the r of a logged rvw, less the r of sample 0, is the  *)
(* simulated time of that sample's state.                                  *)
(***************************************************************************)
FromSimulate(h) ==
    /\ Samples(h) > 0
    /\ \A k \in DOMAIN h.event : IsEvent(h.event[k])

RECURSIVE FiniteTauSum(_, _)
FiniteTauSum(h, k) ==
    IF k = 0 THEN 0
    ELSE FiniteTauSum(h, k - 1) +
         (IF h.event[k].tau < Inf THEN h.event[k].tau ELSE 0)

Abs(x) == IF x < 0 THEN -x ELSE x

Replaying == pc \in {"for", "c_while", "c_vectorize", "continuized"}

SimTime(h, k) == h.balls[1].rvw[k].r - h.balls[1].rvw[1].r

\* C16: after continuize(dt) on a history built by simulate whose finite
\* taus sum to T, the number of samples of the rebuilt history satisfies
\* |count * dt - T| <= dt, also when consecutive events fall within one dt.
C16_SampleCountMatchesDuration ==
    (pc = "continuized" /\ FromSimulate(old_history)) =>
        Abs(Samples(history) * dt_arg
              - FiniteTauSum(old_history, Samples(old_history))) <= dt_arg

\* C17: the history continuize rebuilds is at fixed step dt: the states of
\* consecutive samples are exactly dt of simulated time apart, also across
\* an event, and the time logged with a sample is the simulated time that
\* has elapsed from the start of the shot to that sample's state.
C17_FixedStepAndTrueTime ==
    (Replaying /\ FromSimulate(old_history)) =>
        \A k \in 1..Samples(history) :
            /\ history.time[k] = SimTime(history, k)
            /\ k > 1 => SimTime(history, k) - SimTime(history, k - 1) = dt_arg

\* C18: a sample continuize logs while stepping toward an event of the old
\* history is taken strictly before that event: the time elapsed since the
\* event before is less than the event's tau, and the simulated time of the
\* sample's state is less than the time the old history logged for the event.
C18_SamplesStopShortOfEvent ==
    [][(pc = "c_while" /\ n' = n + 1) =>
          /\ event_time' < old_history.event[pos].tau
          /\ SimTime(history', Samples(history')) < old_history.time[pos]]_vars

\* C18 witness: a step toward an event has been taken and logged
C18_SteppedTowardEvent ==
    /\ pc = "c_while"
    /\ event_time > 0
    /\ Samples(history) >= 2

\* C19: for every event of the old history with a finite tau, the history
\* continuize rebuilds holds a sample at that event: a sample whose s and
\* rvw are, for every ball, those stored at the event's index in the old
\* history.
C19_EventStatesAreSampled ==
    (pc = "continuized" /\ FromSimulate(old_history)) =>
        \A k \in DOMAIN old_history.event :
            old_history.event[k].tau < Inf =>
                \E j \in 1..Samples(history) :
                    \A id \in DOMAIN old_history.balls :
                        /\ history.balls[id].s[j] = old_history.balls[id].s[k]
                        /\ history.balls[id].rvw[j] = old_history.balls[id].rvw[k]

(***************************************************************************)
(* Properties of the collision generators applied alone: in a state with   *)
(* pc = "generated", cand.bb and cand.br are what they returned for balls, *)
(* table.rails and the answers in oracle.                                  *)
(***************************************************************************)
\* The unordered pairs of balls that are not both stationary, and the pairs
\* of a ball that is not stationary and a rail, by position
ConsideredPairs ==
    {q \in (DOMAIN balls) \X (DOMAIN balls) :
        /\ q[1] < q[2]
        /\ ~(balls[q[1]].s = stationary /\ balls[q[2]].s = stationary)}
ConsideredRails ==
    {q \in (DOMAIN balls) \X (DOMAIN table.rails) : balls[q[1]].s # stationary}

PairTime(q) == oracle[<<"bb", q[1], q[2]>>]
RailTime(q) == oracle[<<"br", q[1], q[2]>>]

\* The order in which the nested loops reach two pairs
Before(q1, q2) == q1[1] < q2[1] \/ (q1[1] = q2[1] /\ q1[2] < q2[2])

BallBallMin ==
    IF \E q \in ConsideredPairs : PairTime(q) < Inf
    THEN CHOOSE t \in {PairTime(q) : q \in ConsideredPairs} :
            \A q \in ConsideredPairs : t <= PairTime(q)
    ELSE Inf
BallRailMin ==
    IF \E q \in ConsideredRails : RailTime(q) < Inf
    THEN CHOOSE t \in {RailTime(q) : q \in ConsideredRails} :
            \A q \in ConsideredRails : t <= RailTime(q)
    ELSE Inf

FirstPair ==
    CHOOSE q \in ConsideredPairs :
        /\ PairTime(q) = BallBallMin
        /\ \A q2 \in ConsideredPairs :
              PairTime(q2) = BallBallMin => (q2 = q \/ Before(q, q2))
FirstRail ==
    CHOOSE q \in ConsideredRails :
        /\ RailTime(q) = BallRailMin
        /\ \A q2 \in ConsideredRails :
              RailTime(q2) = BallRailMin => (q2 = q \/ Before(q, q2))

\* C20: get_min_ball_ball_event_time returns the least collision time over
\* the unordered pairs of balls that are not both stationary, with the ids
\* of the first such pair, in iteration order, that attains it, and
\* (inf, no agents) if there is none; get_min_ball_rail_event_time returns
\* the least collision time over every ball that is not stationary and
\* every rail, with the first ball and rail that attain it.
C20_GeneratorsTakeFirstMinimum ==
    pc = "generated" =>
        /\ cand.bb.tau = BallBallMin
        /\ cand.bb.ids = IF BallBallMin = Inf THEN <<>>
                         ELSE <<balls[FirstPair[1]].id, balls[FirstPair[2]].id>>
        /\ cand.br.tau = BallRailMin
        /\ BallRailMin < Inf =>
              cand.br.ids = <<balls[FirstRail[1]].id, table.rails[FirstRail[2]]>>

\* C20 witness: two pairs of balls tie for the least collision time while
\* one of the balls is at rest
C20_TieAmongConsideredPairs ==
    /\ pc = "generated"
    /\ cand.bb.tau < Inf
    /\ \E q1, q2 \in ConsideredPairs :
          q1 # q2 /\ PairTime(q1) = cand.bb.tau /\ PairTime(q2) = cand.bb.tau
    /\ \E i \in DOMAIN balls : balls[i].s = stationary

(***************************************************************************)
(* Properties of the per-ball series: init_ball_history, touch_history.    *)
(***************************************************************************)
\* The s and rvw series of every ball of the history are as long as the
\* time series
Aligned(h) ==
    \A id \in DOMAIN h.balls :
        /\ Len(h.balls[id].s) = Len(h.time)
        /\ Len(h.balls[id].rvw) = Len(h.time)

ListedCalls == {"set_balls", "touch_history", "timestamp"}

\* C28: the per-ball series stay aligned with the time series: a set_balls,
\* touch_history or timestamp call that returns, made on a history whose s
\* and rvw series are all as long as history['time'], leaves them so, a
\* ball that touch_history registers after samples were logged being
\* back-filled with one NaN entry per earlier sample.
C28_SeriesStayAligned ==
    [][(call'.op \in ListedCalls /\ call'.out = "ok" /\ Aligned(history))
          => Aligned(history')]_vars

\* C29: init_ball_history with a ball_id that is not in self.balls raises
\* ValueError and leaves the history unchanged; touch_history never raises,
\* creates a series only for the balls of self.balls that have none, and
\* leaves every series already recorded as it was.
C29_ForeignBallRejected ==
    [][/\ (call'.op = "init_ball_history" /\ call'.arg \notin BallIds(balls))
            => (call'.out = "ValueError" /\ history' = history)
       /\ call'.op = "touch_history"
            => /\ call'.out = "ok"
               /\ DOMAIN history'.balls = DOMAIN history.balls \cup BallIds(balls)
               /\ \A id \in DOMAIN history.balls :
                     history'.balls[id] = history.balls[id]
               /\ history'.time = history.time
               /\ history'.index = history.index
               /\ history'.event = history.event]_vars

\* A foreign ball_id is rejected on a history that holds samples, the
\* samples of a ball of self.balls among them
C29_ForeignRejectedAfterSamples ==
    /\ call.op = "init_ball_history"
    /\ call.out = "ValueError"
    /\ call.arg \notin BallIds(balls)
    /\ \E id \in DOMAIN history.balls : Len(history.balls[id].s) = MaxSamples

(***************************************************************************)
(* Properties of get_event_history_for_ball.                               *)
(***************************************************************************)
\* The logged events that involve a ball, in log order
RECURSIVE EventsOfBall(_, _)
EventsOfBall(events, ball_id) ==
    IF events = <<>> THEN <<>>
    ELSE LET rest == EventsOfBall(Tail(events), ball_id)
             e == Head(events)
         IN  IF \E k \in DOMAIN e.agents : e.agents[k] = ball_id
             THEN <<e>> \o rest
             ELSE rest

\* A step that is a call of get_event_history_for_ball
EventHistoryAsked ==
    /\ call'.op = "get_event_history_for_ball"
    /\ UNCHANGED engine

\* C30: get_event_history_for_ball(ball_id) returns, in log order and
\* without raising, exactly the logged events whose agents contain ball_id,
\* on every history simulate produced and on every history continuize
\* produced.
C30_EventHistoryOfBall ==
    [][EventHistoryAsked =>
         /\ call'.out = "ok"
         /\ call'.ret = EventsOfBall(history.event, call'.arg)]_vars

(***************************************************************************)
(* Properties of Cushion and Table.                                        *)
(***************************************************************************)
\* The cushions that exist: the one constructed alone, and a table's four
Cushions ==
    (IF cushion.exists THEN {cushion} ELSE {}) \cup
    (IF pt_table.exists THEN {pt_table.cushions[c] : c \in CushionIds} ELSE {})

\* A Cushion call with points of different heights raised ValueError and
\* left no cushion; every cushion has both points at its height
CushionsAreHorizontal ==
    /\ (call.op = "Cushion" /\ call.arg[1][3] # call.arg[2][3])
          => (call.out = "ValueError" /\ ~cushion.exists)
    /\ \A c \in Cushions : c.p1[3] = c.height /\ c.p2[3] = c.height

\* C21: constructing a Cushion whose boundary points have different heights
\* fails with ValueError and yields no cushion, every Cushion that exists
\* has both boundary points at its height, and Table construction never
\* raises this error.
C21_TableNeverRaises ==
    /\ CushionsAreHorizontal
    /\ call.op = "Table" => call.out = "ok"

\* C21 (amended): as above, Table construction raising the error for no
\* cushion_height that is a number; a cushion_height of nan, which differs
\* from itself at line 99, is rejected with the same ValueError.
C21_TableOfNumbersNeverRaises ==
    /\ CushionsAreHorizontal
    /\ (call.op = "Table" /\ call.arg[3] # float_nan) => call.out = "ok"
    /\ (call.op = "Table" /\ call.arg[3] = float_nan)
          => (call.out = "ValueError" /\ ~pt_table.exists)

\* A cushion between points of heights 0 and 1 was rejected
C21_SlopedCushionRejected ==
    /\ call.op = "Cushion"
    /\ call.out = "ValueError"
    /\ call.arg[1][3] = 0 /\ call.arg[2][3] = 1
    /\ ~cushion.exists

\* lx*x + ly*y + l0 = 0 at a point
OnLine(c, p) ==
    Plus(Plus(Mul(c.lx, Num(p[1])), Mul(c.ly, Num(p[2]))), c.l0) = Num(0)

\* C22: the coefficients of a cushion describe the line through its two
\* points: lx*x + ly*y + l0 = 0 at p1 and at p2, (lx, ly, l0) being
\* (1, 0, -p1x) when p1x = p2x and (-k, 1, k*p1x - p1y) with
\* k = (p2y - p1y)/(p2x - p1x) otherwise, and normal is (lx, ly, 0) scaled
\* to unit length.
C22_LineThroughBothPoints ==
    \A c \in Cushions :
        /\ OnLine(c, c.p1)
        /\ OnLine(c, c.p2)
        /\ c.p1[1] = c.p2[1]
              => /\ c.lx = Num(1) /\ c.ly = Num(0)
                 /\ c.l0 = Num(-c.p1[1])
        /\ c.p1[1] # c.p2[1]
              => LET k == Div(c.p2[2] - c.p1[2], c.p2[1] - c.p1[1])
                 IN  /\ c.lx = Neg(k) /\ c.ly = Num(1)
                     /\ c.l0 = Minus(Mul(k, Num(c.p1[1])), Num(c.p1[2]))
        /\ c.normal.direction = <<c.lx, c.ly, Num(0)>>
        /\ c.normal.length = 1

\* A cushion of slope 1/2 that does not pass through the origin
C22_SlopedCushion ==
    /\ cushion.exists
    /\ cushion.p1 = <<2, 2, 1>>
    /\ cushion.p2 = <<0, 1, 1>>
    /\ cushion.lx = Div(-1, 2)
    /\ cushion.l0 = Num(-1)

(***************************************************************************)
(* Properties of the Global namespace and of require_showbase.             *)
(***************************************************************************)
\* The value an attribute of the namespace holds (instance attributes only)
Holds(g, name, val) ==
    IF name = "_custom_registry"
    THEN g.has_registry /\ ~g.registry_is_set /\ g.registry_number = val
    ELSE name \in DOMAIN g.dict /\ g.dict[name] = val

\* The attribute does not exist: neither the instance nor the class has it
Undeclared(g, name) ==
    /\ name \notin DOMAIN g.dict
    /\ name \notin ClassAttrs \cup Properties
    /\ ~(name = "_custom_registry" /\ g.has_registry)

\* C23: the Global namespace does not support direct attribute declaration:
\* after any sequence of direct assignments and register calls, those that
\* fail partway included, a direct assignment to a name that does not exist
\* raises TypeError and leaves the namespace unchanged.
C23_NoDirectDeclaration ==
    [][(call'.op = "setattr" /\ Undeclared(glob, call'.arg[1]))
          => (call'.out = "TypeError" /\ glob' = glob)]_vars

\* A register call that returns
Registered == call'.op = "register" /\ call'.out = "ok"

\* What a register(name, var) call that returns leaves behind, the value
\* of the attribute apart: name is recorded, no other attribute changes,
\* and _freeze is True again
RegisterEffects ==
    /\ glob'.registry_is_set
    /\ call'.arg[1] \in glob'.registry
    /\ glob.registry \subseteq glob'.registry
    /\ \A k \in DOMAIN glob.dict \ {call'.arg[1], "_freeze"} :
          k \in DOMAIN glob'.dict /\ glob'.dict[k] = glob.dict[k]
    /\ DOMAIN glob'.dict \subseteq DOMAIN glob.dict \cup {call'.arg[1]}
    /\ glob'.registry \subseteq glob.registry \cup {call'.arg[1]}
    /\ Freeze(glob') = 1

\* C24: a register(name, var) call that returns makes the attribute name
\* hold var, records name in _custom_registry, changes no other attribute,
\* and returns with _freeze equal to True.
C24_RegisterSetsAndRecords ==
    [][Registered
          => (Holds(glob', call'.arg[1], call'.arg[2]) /\ RegisterEffects)]_vars

\* C24 (amended): as above for every name but _freeze; register('_freeze',
\* var) returns with _freeze equal to True whatever var is.
C24_RegisterSetsAndRecordsButFreeze ==
    [][Registered
          => /\ RegisterEffects
             /\ call'.arg[1] # "_freeze"
                   => Holds(glob', call'.arg[1], call'.arg[2])]_vars

\* A name registered before is registered again with another value, beside
\* another registered name
C24_RegisteredAgain ==
    /\ call.op = "register"
    /\ call.out = "ok"
    /\ call.arg = <<"x", 0>>
    /\ glob.registry = {"x", "y"}
    /\ glob.dict["x"] = 0
    /\ glob.dict["y"] = 1
    /\ Freeze(glob) = 1

\* C25: a function wrapped by require_showbase is invoked, with the same
\* arguments and its result returned, if and only if ShowBase has been
\* initialized at call time; otherwise the call raises ConfigError and the
\* function is not executed.  So do Global.base, Global.render,
\* Global.task_mgr and Global.loader.
C25_WrappedRunsIffShowBase ==
    /\ call.op \in {"wrapper", "getattr"}
          => /\ call.executed <=> showbase
             /\ showbase => call.out = "ok"
             /\ ~showbase => call.out = "ConfigError"
    /\ (call.op = "wrapper" /\ call.executed) => call.ret = <<"func", call.arg>>
    /\ (call.op = "getattr" /\ call.executed)
          => call.ret = <<"ShowBaseGlobal.base", call.arg>>

\* Global.render is read before ShowBase is initialized
C25_RenderReadTooEarly ==
    /\ call.op = "getattr"
    /\ call.arg = "render"
    /\ call.out = "ConfigError"
    /\ ~showbase

(***************************************************************************)
(* Properties of ShotMode.exit.                                            *)
(***************************************************************************)
\* A step that is a call of exit with a key
Exits(key) == call'.op = "exit" /\ call'.arg = key /\ mode.active

\* C26: exit(key) accepts only the keys end, reset and soft, any other key
\* failing the assertion before any state is changed; end and reset end the
\* animation and clear the shots collection, soft leaves both untouched;
\* for every accepted key the tasks shot_view_task and shot_animation_task
\* added by enter are removed.
C26_ExitByKey ==
    [][/\ \A key \in Keys \ {"end", "reset", "soft"} :
             Exits(key) => /\ call'.out = "AssertionError"
                           /\ mode' = mode
       /\ \A key \in {"end", "reset"} :
             Exits(key) => /\ call'.out = "ok"
                           /\ ~mode'.animating
                           /\ mode'.shots = 0
       /\ Exits("soft") => /\ call'.out = "ok"
                           /\ mode'.animating = mode.animating
                           /\ mode'.shots = mode.shots
       /\ \A key \in {"end", "reset", "soft"} :
             Exits(key) => /\ "shot_view_task" \notin mode'.tasks
                           /\ "shot_animation_task" \notin mode'.tasks]_vars

\* The mode was left softly while the animation was playing
C26_SoftExitWhileAnimating ==
    /\ call.op = "exit"
    /\ call.arg = "soft"
    /\ call.out = "ok"
    /\ ~mode.active
    /\ mode.animating
    /\ mode.shots = MaxShots
    /\ mode.tasks = {}

\* C27: exit('reset') returns the system to the start state of the shot:
\* every ball whose history is populated is set to rvw = history.rvw[0],
\* s = history.s[0], t = 0, and every ball's history is reset; exit('end')
\* leaves each ball's rvw and s at the end state of the shot.
C27_ResetRewindsEndDoesNot ==
    [][/\ Exits("reset") =>
             \A i \in DOMAIN mode.balls :
                /\ Len(mode.balls[i].history.rvw) > 0
                      => /\ mode'.balls[i].rvw = mode.balls[i].history.rvw[1]
                         /\ mode'.balls[i].s = mode.balls[i].history.s[1]
                         /\ mode'.balls[i].t = 0
                /\ mode'.balls[i].history.rvw = <<>>
                /\ mode'.balls[i].history.s = <<>>
       /\ Exits("end") =>
             \A i \in DOMAIN mode.balls :
                /\ mode'.balls[i].rvw = mode.balls[i].rvw
                /\ mode'.balls[i].s = mode.balls[i].s]_vars

\* After exit('reset') the first ball is at rest at the start, at time 0,
\* with an empty history, beside a ball left at rvw = 1 and t = 1, which
\* had no history to be rewound from
C27_RolledBallRewound ==
    /\ call.op = "exit"
    /\ call.arg = "reset"
    /\ call.out = "ok"
    /\ mode.balls[1] = [rvw |-> 0, s |-> stationary, t |-> 0,
                        history |-> NoBallHistory, angle |-> 1,
                        rendered |-> TRUE]
    /\ mode.balls[2].rvw = 1
    /\ mode.balls[2].t = 1

(***************************************************************************)
(* Properties of continuize as a whole.                                    *)
(***************************************************************************)
\* The entries of the old log that are events, and those of infinite tau
Replayable(k) == old_history.event[k] # NoEvent
EndsReplay(k) == Replayable(k) /\ old_history.event[k].tau = Inf

\* No entry of the old log is an Event
NothingToReplay == \A k \in DOMAIN old_history.event : ~Replayable(k)

\* C31: continuize replays only the entries of the old log that are Event
\* instances and stops at the first one with tau = inf; on a history whose
\* logged events are all non-Event, such as one continuize produced, it
\* yields a history with exactly one sample, the state at index 0, so that
\* a second continuize does not reproduce a first result of several samples.
C31_ReplaysEventsOnly ==
    /\ pc = "c_while"
          => /\ Replayable(pos)
             /\ ~EndsReplay(pos)
    /\ pc \in {"c_while", "c_vectorize", "continuized"}
          => /\ \A k \in 1..(pos - 1) : k \in DOMAIN old_history.event
                                          => ~EndsReplay(k)
             /\ pc # "c_while"
                   => (pos > Len(old_history.event) \/ EndsReplay(pos))
    /\ (pc = "continuized" /\ NothingToReplay)
          => /\ Len(history.time) = 1
             /\ history.time[1] = 0
             /\ \A id \in DOMAIN history.balls :
                   /\ Len(history.balls[id].rvw) = 1
                   /\ history.balls[id].rvw[1] = old_history.balls[id].rvw[1]
                   /\ history.balls[id].s = <<old_history.balls[id].s[1]>>
             /\ Len(old_history.time) > 1 => history.time # old_history.time

\* continuize has returned from a history of three samples or more that
\* holds no Event, leaving a single sample
C31_ContinuizedTwice ==
    /\ pc = "continuized"
    /\ NothingToReplay
    /\ Len(old_history.time) >= 3
    /\ Len(history.time) = 1

\* continuize is running
InContinuize == pc \in {"for", "c_while", "c_vectorize"}

\* C32: continuize(dt) terminates for every dt > 0 and every history of
\* finitely many events with non-negative taus: the step carried over,
\* dt_prime, stays within [0, dt], every step of the inner loop adds the
\* step taken to the elapsed time and makes dt the step of the next one,
\* and a continuize call that has begun returns.
C32_ContinuizeTerminates ==
    /\ []((InContinuize \/ pc = "continuized")
             => (0 <= dt_prime /\ dt_prime <= dt_arg))
    /\ [][(pc = "c_while" /\ n' = n + 1)
             => /\ event_time' = event_time + dt_prime
                /\ dt_prime' = dt_arg
                /\ dt_arg > 0]_vars
    /\ (InContinuize ~> pc = "continuized")

\* continuize has returned after an event was reached with a step left over
\* that is neither 0 nor dt
C32_ReturnedWithCarry ==
    /\ pc = "continuized"
    /\ dt_prime > 0
    /\ dt_prime < dt_arg
    /\ Samples(history) >= 3

\* The entries of a log that are events of finite tau, and the last of them
FiniteEvents(h) ==
    {k \in DOMAIN h.event : h.event[k] # NoEvent /\ h.event[k].tau # Inf}

LastFiniteEvent(h) ==
    CHOOSE k \in FiniteEvents(h) : \A j \in FiniteEvents(h) : j <= k

\* C33: when continuize returns, the live balls are in the resolved state
\* recorded at the last finite-tau event of the original history, the new
\* history is vectorized, and the original history has not been modified
\* by the replay: it is, throughout the call, the history the call found.
C33_ContinuizeLeavesFinalState ==
    /\ []((pc = "continuized" /\ FiniteEvents(old_history) # {})
            => LET k == LastFiniteEvent(old_history)
               IN  \A i \in DOMAIN balls :
                      /\ balls[i].s = old_history.balls[balls[i].id].s[k]
                      /\ balls[i].rvw = old_history.balls[balls[i].id].rvw[k])
    /\ [](pc = "continuized"
            => /\ vectorized
               /\ arrays = SeriesKeys(history))
    /\ [][/\ (pc \in Returned /\ pc' = "for") => old_history' = history
          /\ (InContinuize /\ pc' # "raised") => old_history' = old_history]_vars

\* continuize has returned from a shot in which the ball changed its motion
\* state twice or more, the last logged entry being the event of infinite
\* tau
C33_ReturnedFromLongShot ==
    /\ pc = "continuized"
    /\ Cardinality(FiniteEvents(old_history)) >= 3
    /\ Len(old_history.event) > Cardinality(FiniteEvents(old_history))
    /\ balls[1].s # old_history.balls[1].s[1]
    /\ vectorized

====
